---- MODULE Spec2Model ----
(***************************************************************************)
(* Timeline drag/ghost placement engine of the video editor                *)
(* (src/components/Timeline/TimelineRow.jsx) and the store operations it   *)
(* drives.  Times are milliseconds, pointer positions are pixels.          *)
(***************************************************************************)
EXTENDS Integers, Sequences, FiniteSets, TLC

\* ------------------------------------------------------------------------
\* Bounds of the model
\* ------------------------------------------------------------------------
NumRows == 2
RowWidth == 4
MsPerPx == 5000
RowLeft == 1

\* ------------------------------------------------------------------------
\* Program constants
\* ------------------------------------------------------------------------
ImageDuration == 5000
VideoDuration == 10000
ImageGap == 5000
VideoGap == 10000
FileAudioDuration == 30000
EffectDuration == 10000
EffectGap == 10000
AnimationGhostDuration == 1000
TransitionGhostDuration == 1000
AnimationDuration == 600

maxTime == RowWidth * MsPerPx

Kinds == {"video", "image", "imageUrl", "audio", "text", "animation"}
Undefined == "undefined"
\* every value a type argument was seen to take: the declared kinds, the
\* 'transition' ghost type and the type of an empty row (undefined)
AllTypes == Kinds \cup {"transition", Undefined}

\* JavaScript null / undefined and NaN among the numbers
Null == 0 - 1
NaN == 0 - 2

Max(a, b) == IF a >= b THEN a ELSE b
Min(a, b) == IF a <= b THEN a ELSE b

\* ------------------------------------------------------------------------
\* Type compatibility rules
\* ------------------------------------------------------------------------
mixableTypes == {"audio", "video", "imageUrl", "image"}

\* animation is tested before the subtitle rule
areTypesCompatible_animFirst(type1, type2) ==
    IF type1 = "animation" \/ type2 = "animation"
    THEN TRUE
    ELSE IF type1 = "text" \/ type2 = "text"
         THEN type1 = "text" /\ type2 = "text"
         ELSE type1 \in mixableTypes /\ type2 \in mixableTypes

\* animation is recognised in the first argument only
areTypesCompatible_firstOnly(type1, type2) ==
    IF type1 = "text" \/ type2 = "text"
    THEN type1 = "text" /\ type2 = "text"
    ELSE IF type1 = "animation"
         THEN TRUE
         ELSE type1 \in mixableTypes /\ type2 \in mixableTypes

areTypesCompatible(type1, type2) ==
    LET isType1Subtitle == type1 = "text"
        isType2Subtitle == type2 = "text"
    IN  IF isType1Subtitle \/ isType2Subtitle
        THEN isType1Subtitle /\ isType2Subtitle
        ELSE IF type1 = "animation" \/ type2 = "animation"
             THEN TRUE
             ELSE type1 \in mixableTypes /\ type2 \in mixableTypes

\* ------------------------------------------------------------------------
\* State
\* ------------------------------------------------------------------------
VARIABLES
    editorElements,   \* store.editorElements: sequence of timeline elements
    maxRows,          \* store.maxRows
    selectedElements, \* store.selectedElements: set of selected element ids
    ghostState,       \* store.ghostState
    dnd,              \* the pointer gesture in progress (drag monitor / native drag / row handle)
    committed,        \* a mutation of the timeline was committed; gestures are followed up to the first one
    last,             \* the handler that ran last and the store calls it made
    cmp,              \* inputs and results of the compatibility function
    animations,       \* store.animations
    sceneElements,    \* store.editorElements as the scene pass reads them (placement, fabricObject)
    hasCanvas,        \* store.canvas is set
    canvas,           \* the objects of store.canvas, bottom to top
    canvasHandlers,   \* the handlers bound to canvas events, one entry per binding
    isRefreshingElements, \* store.isRefreshingElements
    imageLoads,       \* fabric.Image.fromURL loads whose callback has not run yet
    pass,             \* passes started, and the loads the suspended pass awaits
    rlog,             \* what the last step of the scene pass did
    sceneHistory,     \* the scenes left by the last completed passes
    subtitle          \* a text element and its textObject while its handlers run

dragVars == <<editorElements, maxRows, selectedElements, ghostState, dnd, committed, last, cmp, animations>>
refreshVars == <<sceneElements, hasCanvas, canvas, canvasHandlers, isRefreshingElements,
                 imageLoads, pass, rlog, sceneHistory, subtitle>>
vars == <<dragVars, refreshVars>>

NullElem == [id |-> 0, type |-> Undefined, row |-> 0, start |-> 0, end |-> 0]
NullGhost == [start |-> Null, row |-> Null, incompatible |-> FALSE]

EmptyGhostState ==
    [isDragging |-> FALSE, isMultiDragging |-> FALSE, isGalleryDragging |-> FALSE,
     isFileDragging |-> FALSE, isDraggingRow |-> FALSE, isAnimationDrag |-> FALSE,
     draggedElement |-> NullElem, initialClientX |-> Null,
     initialElementStart |-> 0, initialElementStarts |-> <<>>,
     selectedElements |-> <<>>, ghostElement |-> NullGhost,
     multiGhostPosition |-> Null,
     galleryGhostElement |-> NullGhost, galleryGhostCache |-> NullGhost,
     fileGhostElement |-> NullGhost, ghostType |-> Undefined, ghostDuration |-> 0,
     draggedRowIndex |-> Null, dragOverRowIndex |-> Null, rowInsertPosition |-> "none"]

NoGesture ==
    [kind |-> "none", id |-> 0, duration |-> 0, propDuration |-> 0, fileType |-> "", seenType |-> "",
     row |-> Null, x |-> Null, firstX |-> Null, node |-> 0, didDrop |-> FALSE, started |-> {},
     uploadOk |-> TRUE]
NoCmp ==
    [type1 |-> Undefined, type2 |-> Undefined, called |-> FALSE, result |-> FALSE,
     calledSwapped |-> FALSE, swapped |-> FALSE]
NoPass == [started |-> 0, waiting |-> {}]
NoRlog ==
    [op |-> "init", pass |-> 0, ran |-> FALSE, threw |-> 0, done |-> {}, input |-> <<>>,
     order |-> <<>>, finalized |-> FALSE, failed |-> FALSE]
NoHistory == [count |-> 0, last |-> <<>>, prev |-> <<>>]
NoSubtitle ==
    [subType |-> Undefined, start |-> 0, end |-> 0, text |-> <<>>, words |-> <<>>,
     wordObjects |-> <<>>, objText |-> <<>>, isEditing |-> FALSE, op |-> "init"]

\* the scene pass at rest
RefreshIdle ==
    /\ sceneElements = <<>>
    /\ hasCanvas = FALSE
    /\ canvas = <<>>
    /\ canvasHandlers = <<>>
    /\ isRefreshingElements = FALSE
    /\ imageLoads = {}
    /\ pass = NoPass
    /\ rlog = NoRlog
    /\ sceneHistory = NoHistory
    /\ subtitle = NoSubtitle

NoLast ==
    [op |-> "init", kind |-> "none", id |-> 0, ghost |-> "none", row |-> Null, y |-> Null,
     calls |-> <<>>]

\* ------------------------------------------------------------------------
\* Helpers over the element list
\* ------------------------------------------------------------------------
find(elements, id) ==
    IF \E i \in 1..Len(elements) : elements[i].id = id
    THEN elements[CHOOSE i \in 1..Len(elements) : elements[i].id = id /\ \A j \in 1..(i-1) : elements[j].id # id]
    ELSE NullElem

overlays(elements, rowIndex) == SelectSeq(elements, LAMBDA el : el.row = rowIndex)

rowTypeOf(elements, rowIndex) ==
    IF Len(overlays(elements, rowIndex)) = 0 THEN Undefined ELSE overlays(elements, rowIndex)[1].type

duration(el) == el.end - el.start

getUid(elements) == 1 + Len(elements)

\* stable sort by timeFrame.start, as [...rowElements].sort((a, b) => a.timeFrame.start - b.timeFrame.start)
RECURSIVE sortByStart(_)
sortByStart(s) ==
    IF Len(s) <= 1 THEN s
    ELSE LET h == Head(s)
             rest == sortByStart(Tail(s))
         IN  SelectSeq(rest, LAMBDA e : e.start < h.start) \o <<h>>
                 \o SelectSeq(rest, LAMBDA e : e.start >= h.start)


\* ------------------------------------------------------------------------
\* Store operations (mobx store; called from TimelineRow.jsx)
\* ------------------------------------------------------------------------
AnyDragActive(gs) ==
    gs.isDragging \/ gs.isMultiDragging \/ gs.isGalleryDragging
        \/ gs.isFileDragging \/ gs.isDraggingRow

\* resolver rule 1: clamp candidateStart to [0, maxTime - duration]
clampStart(candidateStart, dur) == Max(0, Min(maxTime - dur, candidateStart))

resetGhostState(gs) == EmptyGhostState

startGhostDrag(gs, element) ==
    IF AnyDragActive(gs) THEN gs
    ELSE [gs EXCEPT !.isDragging = TRUE,
                    !.isAnimationDrag = (element.type = "animation"),
                    !.draggedElement = element,
                    !.initialElementStart = element.start,
                    !.initialClientX = Null,
                    !.ghostElement = NullGhost]

\* a start that does not look at the drag already active
startMultiGhostDrag_unguarded(gs, selected, element) ==
    [gs EXCEPT !.isMultiDragging = TRUE,
               !.draggedElement = element,
               !.selectedElements = selected,
               !.initialElementStarts = [i \in 1..Len(selected) |-> selected[i].start],
               !.initialClientX = Null]

startMultiGhostDrag(gs, selected, element) ==
    IF AnyDragActive(gs) THEN gs
    ELSE [gs EXCEPT !.isMultiDragging = TRUE,
                    !.draggedElement = element,
                    !.selectedElements = selected,
                    !.initialElementStarts = [i \in 1..Len(selected) |-> selected[i].start],
                    !.initialClientX = Null]

startGalleryGhostDrag(gs, type, dur) ==
    IF AnyDragActive(gs) THEN gs
    ELSE [gs EXCEPT !.isGalleryDragging = TRUE,
                    !.ghostType = type,
                    !.ghostDuration = dur,
                    !.galleryGhostElement = NullGhost,
                    !.galleryGhostCache = NullGhost]

startFileGhostDrag(gs, type, dur) ==
    IF AnyDragActive(gs) THEN gs
    ELSE [gs EXCEPT !.isFileDragging = TRUE,
                    !.ghostType = type,
                    !.ghostDuration = dur,
                    !.fileGhostElement = NullGhost]

startRowDrag(gs, rowIndex) ==
    IF AnyDragActive(gs) THEN gs
    ELSE [gs EXCEPT !.isDraggingRow = TRUE,
                    !.draggedRowIndex = rowIndex,
                    !.dragOverRowIndex = Null,
                    !.rowInsertPosition = "none"]

\* preview of a single move: the clamped candidate, the row and the rejected cue
updateGhostElementWithPush(gs, newPosition, rowIndex, isIncompatible) ==
    IF ~gs.isDragging THEN gs
    ELSE [gs EXCEPT !.ghostElement =
            [start |-> clampStart(newPosition, duration(gs.draggedElement)),
             row |-> rowIndex, incompatible |-> isIncompatible]]

updateAnimationGhostElementWithPush(gs, newPosition, rowIndex, isIncompatible) ==
    updateGhostElementWithPush(gs, newPosition, rowIndex, isIncompatible)

updateMultiGhostElements(gs, newPosition) ==
    IF ~gs.isMultiDragging \/ newPosition = NaN THEN gs
    ELSE [gs EXCEPT !.multiGhostPosition = newPosition]

updateGalleryGhost(gs, newPosition, rowIndex, isIncompatible) ==
    IF ~gs.isGalleryDragging THEN gs
    ELSE [gs EXCEPT !.galleryGhostElement =
            [start |-> clampStart(newPosition, gs.ghostDuration),
             row |-> rowIndex, incompatible |-> isIncompatible],
                    !.galleryGhostCache = NullGhost]

updateFileGhost(gs, newPosition, rowIndex, isIncompatible) ==
    IF ~gs.isFileDragging THEN gs
    ELSE [gs EXCEPT !.fileGhostElement =
            [start |-> clampStart(newPosition, gs.ghostDuration),
             row |-> rowIndex, incompatible |-> isIncompatible]]

hideGalleryGhostOnItemHover(gs) ==
    IF ~gs.isGalleryDragging \/ gs.galleryGhostElement = NullGhost THEN gs
    ELSE [gs EXCEPT !.galleryGhostCache = gs.galleryGhostElement,
                    !.galleryGhostElement = NullGhost]

showGalleryGhostFromCache(gs) ==
    IF ~gs.isGalleryDragging \/ gs.galleryGhostCache = NullGhost THEN gs
    ELSE [gs EXCEPT !.galleryGhostElement = gs.galleryGhostCache,
                    !.galleryGhostCache = NullGhost]

updateRowDragOver(gs, targetRowIndex, insertPosition) ==
    IF ~gs.isDraggingRow THEN gs
    ELSE [gs EXCEPT !.dragOverRowIndex = targetRowIndex,
                    !.rowInsertPosition = insertPosition]

\* push resolution: neighbours of the placed element that overlap it move
\* forward by the least amount, cascading along the row
RECURSIVE pushCascade(_, _, _)
pushCascade(neighbours, cursor, movedStart) ==
    IF Len(neighbours) = 0 THEN <<>>
    ELSE LET n == Head(neighbours)
         IN  IF n.end <= movedStart
             THEN <<n>> \o pushCascade(Tail(neighbours), cursor, movedStart)
             ELSE IF n.start < cursor
                  THEN LET pushed == [n EXCEPT !.start = cursor, !.end = cursor + duration(n)]
                       IN  <<pushed>> \o pushCascade(Tail(neighbours), pushed.end, movedStart)
                  ELSE <<n>> \o pushCascade(Tail(neighbours), Max(cursor, n.end), movedStart)

placeWithPush(elements, moved) ==
    LET neighbours == sortByStart(SelectSeq(elements,
                          LAMBDA el : el.row = moved.row /\ el.id # moved.id))
        resolved == pushCascade(neighbours, moved.end, moved.start)
    IN  [i \in 1..Len(elements) |->
            IF elements[i].id = moved.id THEN moved
            ELSE IF elements[i].row = moved.row
                 THEN find(resolved, elements[i].id)
                 ELSE elements[i]]

\* commit of a single move: returns the new element list
finishGhostDragElements(gs, elements, finalPosition, rowIndex) ==
    IF ~gs.isDragging THEN elements
    ELSE LET el == find(elements, gs.draggedElement.id)
             start == clampStart(finalPosition, duration(el))
             moved == [el EXCEPT !.row = rowIndex, !.start = start, !.end = start + duration(el)]
         IN  placeWithPush(elements, moved)

\* a commit that fails leaves the timeline as it was; the ghost is released either way
finishGhostDrag(gs, elements, finalPosition, rowIndex, commitOk) ==
    [gs |-> resetGhostState(gs),
     els |-> IF commitOk THEN finishGhostDragElements(gs, elements, finalPosition, rowIndex)
             ELSE elements]

finishAnimationGhostDrag(gs, elements, finalPosition, rowIndex, commitOk) ==
    finishGhostDrag(gs, elements, finalPosition, rowIndex, commitOk)

\* a multi move that clamps every selected element on its own
finishMultiGhostDragElements_clampEach(gs, elements, finalPosition) ==
    IF ~gs.isMultiDragging \/ finalPosition = NaN THEN elements
    ELSE LET ids == {gs.selectedElements[i].id : i \in 1..Len(gs.selectedElements)}
             idx == CHOOSE i \in 1..Len(gs.selectedElements) :
                        gs.selectedElements[i].id = gs.draggedElement.id
             delta == finalPosition - gs.initialElementStarts[idx]
         IN  [i \in 1..Len(elements) |->
                IF elements[i].id \in ids
                THEN [elements[i] EXCEPT
                        !.start = clampStart(elements[i].start + delta, duration(elements[i])),
                        !.end = clampStart(elements[i].start + delta, duration(elements[i]))
                                    + duration(elements[i])]
                ELSE elements[i]]

\* commit of a multi move: one delta for every selected element
finishMultiGhostDragElements(gs, elements, finalPosition) ==
    IF ~gs.isMultiDragging \/ finalPosition = NaN THEN elements
    ELSE LET ids == {gs.selectedElements[i].id : i \in 1..Len(gs.selectedElements)}
             idx == CHOOSE i \in 1..Len(gs.selectedElements) :
                        gs.selectedElements[i].id = gs.draggedElement.id
             delta == finalPosition - gs.initialElementStarts[idx]
         IN  [i \in 1..Len(elements) |->
                IF elements[i].id \in ids
                THEN [elements[i] EXCEPT !.start = @ + delta, !.end = @ + delta]
                ELSE elements[i]]

finishMultiGhostDrag(gs, elements, finalPosition, commitOk) ==
    [gs |-> resetGhostState(gs),
     els |-> IF commitOk THEN finishMultiGhostDragElements(gs, elements, finalPosition)
             ELSE elements]

\* rows at or after rowIndex move down by one
shiftRowsDown(elements, rowIndex) ==
    [i \in 1..Len(elements) |->
        IF elements[i].row >= rowIndex
        THEN [elements[i] EXCEPT !.row = @ + 1]
        ELSE elements[i]]

addImageLocal(elements, row, startTime) ==
    Append(elements, [id |-> getUid(elements), type |-> "imageUrl", row |-> row,
                      start |-> startTime, end |-> startTime + ImageDuration])

\* startTime = Null stands for a call that passes no startTime
handleVideoUploadFromUrl(elements, dur, row, startTime) ==
    LET d == IF dur = 0 THEN VideoDuration ELSE dur
        s == IF startTime = Null THEN 0 ELSE startTime
    IN  Append(elements, [id |-> getUid(elements), type |-> "video", row |-> row,
                          start |-> s, end |-> s + d])

\* the origin row moves to the target index, the rows between shift by one
finishRowDragElements(gs, elements, targetRowIndex) ==
    IF ~gs.isDraggingRow THEN elements
    ELSE LET o == gs.draggedRowIndex
             t == targetRowIndex
         IN  [i \in 1..Len(elements) |->
                LET r == elements[i].row
                IN  [elements[i] EXCEPT !.row =
                        IF r = o THEN t
                        ELSE IF o < t /\ r > o /\ r <= t THEN r - 1
                        ELSE IF t < o /\ r >= t /\ r < o THEN r + 1
                        ELSE r]]

\* ------------------------------------------------------------------------
\* TimelineRow component: helpers
\* ------------------------------------------------------------------------
Call(name, pos, row, dur) ==
    [name |-> name, pos |-> pos, row |-> row, dur |-> dur, end |-> Null, flag |-> FALSE]
\* a call that carries an incompatibility flag
CallFlag(name, pos, row, dur, flag) ==
    [name |-> name, pos |-> pos, row |-> row, dur |-> dur, end |-> Null, flag |-> flag]
\* a call that carries a time range
CallRange(name, pos, row, dur, end) ==
    [name |-> name, pos |-> pos, row |-> row, dur |-> dur, end |-> end, flag |-> FALSE]
Result(gs, els, sel, calls) == [gs |-> gs, els |-> els, sel |-> sel, calls |-> calls]

Called(name) == \E i \in 1..Len(last.calls) : last.calls[i].name = name
CallOf(name) == last.calls[CHOOSE i \in 1..Len(last.calls) : last.calls[i].name = name]

\* clientOffset.x - hoverBoundingRect.left
mouseXOf_absolute(clientX) == clientX

mouseXOf(clientX) == clientX - RowLeft

\* (pixels / hoverBoundingRect.width) * store.maxTime; the pointer grid makes it exact
pxToTime(px) == (px * maxTime) \div RowWidth

\* Math.max(0, Math.min(store.maxTime, position))
clampToTimeline(position) == Max(0, Min(maxTime, position))

ClientXs == RowLeft..(RowLeft + RowWidth)
Rows == 0..(maxRows - 1)
\* a timeline item under the pointer that carries no data-overlay-id
UnknownNode == 0 - 1

\* selected ids resolved against the element list, in list order
resolveSelected(elements, sel) == SelectSeq(elements, LAMBDA el : el.id \in sel)

indexOfId(s, id) ==
    IF \E i \in 1..Len(s) : s[i].id = id
    THEN CHOOSE i \in 1..Len(s) : s[i].id = id /\ \A j \in 1..(i-1) : s[j].id # id
    ELSE -1

\* ------------------------------------------------------------------------
\* handleHover
\* ------------------------------------------------------------------------
\* gallery-image / gallery-video row hover
hoverGallery(gs, elements, sel, item, rowIndex, clientX, node, acceptType, ghostDur) ==
    LET overlay == find(elements, node)
    IN  IF node = UnknownNode \/ (node > 0 /\ overlay.id # 0 /\ overlay.type = acceptType)
        THEN Result(hideGalleryGhostOnItemHover(gs), elements, sel,
                    <<Call("hideGalleryGhostOnItemHover", Null, rowIndex, 0)>>)
        ELSE LET gs1 == showGalleryGhostFromCache(gs)
                 gs2 == IF ~gs1.isGalleryDragging
                        THEN startGalleryGhostDrag(gs1, acceptType, ghostDur)
                        ELSE gs1
                 startCalls == IF ~gs1.isGalleryDragging
                               THEN <<Call("startGalleryGhostDrag", Null, rowIndex, ghostDur)>>
                               ELSE <<>>
                 mouseX == mouseXOf(clientX)
                 newPosition == pxToTime(mouseX)
                 rowType == rowTypeOf(elements, rowIndex)
                 isIncompatible == rowType # Undefined /\ ~areTypesCompatible(rowType, acceptType)
             IN  Result(updateGalleryGhost(gs2, newPosition, rowIndex, isIncompatible),
                        elements, sel,
                        startCalls \o <<CallFlag("updateGalleryGhost", newPosition, rowIndex, ghostDur,
                                                 isIncompatible)>>)

\* a hover that moves the dragged element to the previewed position
hoverSingleGhost_moveOnHover(gs, elements, sel, rowIndex, clientX, calls) ==
    IF gs.isDragging /\ gs.draggedElement.id # 0 /\ ~gs.isMultiDragging
    THEN LET draggedElement == gs.draggedElement
             rowType == rowTypeOf(elements, rowIndex)
             isCompatible == rowType = Undefined \/ areTypesCompatible(rowType, draggedElement.type)
             gs1 == IF gs.initialClientX = Null
                    THEN [gs EXCEPT !.initialClientX = clientX]
                    ELSE gs
             deltaX == clientX - gs1.initialClientX
             deltaTime == pxToTime(deltaX)
             newPosition == clampToTimeline(gs1.initialElementStart + deltaTime)
         IN  Result(updateGhostElementWithPush(gs1, newPosition, rowIndex, ~isCompatible),
                    finishGhostDragElements(gs1, elements, newPosition, rowIndex), sel,
                    calls \o <<Call("updateGhostElementWithPush", newPosition, rowIndex,
                                    duration(draggedElement))>>)
    ELSE Result(gs, elements, sel, calls)

\* a hover that maps the pointer's offset in the row to the position
hoverSingleGhost_absolute(gs, elements, sel, rowIndex, clientX, calls) ==
    IF gs.isDragging /\ gs.draggedElement.id # 0 /\ ~gs.isMultiDragging
    THEN LET draggedElement == gs.draggedElement
             rowType == rowTypeOf(elements, rowIndex)
             isCompatible == rowType = Undefined \/ areTypesCompatible(rowType, draggedElement.type)
             gs1 == IF gs.initialClientX = Null
                    THEN [gs EXCEPT !.initialClientX = clientX]
                    ELSE gs
             newPosition == clampToTimeline(pxToTime(clientX - RowLeft))
         IN  IF draggedElement.type = "animation"
             THEN Result(updateAnimationGhostElementWithPush(gs1, newPosition, rowIndex, ~isCompatible),
                         elements, sel,
                         calls \o <<CallFlag("updateAnimationGhostElementWithPush", newPosition, rowIndex,
                                             duration(draggedElement), ~isCompatible)>>)
             ELSE Result(updateGhostElementWithPush(gs1, newPosition, rowIndex, ~isCompatible),
                         elements, sel,
                         calls \o <<CallFlag("updateGhostElementWithPush", newPosition, rowIndex,
                                             duration(draggedElement), ~isCompatible)>>)
    ELSE Result(gs, elements, sel, calls)

\* the single-ghost part of the hover (lines 450-500)
hoverSingleGhost(gs, elements, sel, rowIndex, clientX, calls) ==
    IF gs.isDragging /\ gs.draggedElement.id # 0 /\ ~gs.isMultiDragging
    THEN LET draggedElement == gs.draggedElement
             rowType == rowTypeOf(elements, rowIndex)
             isCompatible == rowType = Undefined \/ areTypesCompatible(rowType, draggedElement.type)
             gs1 == IF gs.initialClientX = Null
                    THEN [gs EXCEPT !.initialClientX = clientX]
                    ELSE gs
             deltaX == clientX - gs1.initialClientX
             deltaTime == pxToTime(deltaX)
             newPosition == clampToTimeline(gs1.initialElementStart + deltaTime)
         IN  IF draggedElement.type = "animation"
             THEN Result(updateAnimationGhostElementWithPush(gs1, newPosition, rowIndex, ~isCompatible),
                         elements, sel,
                         calls \o <<CallFlag("updateAnimationGhostElementWithPush", newPosition, rowIndex,
                                             duration(draggedElement), ~isCompatible)>>)
             ELSE Result(updateGhostElementWithPush(gs1, newPosition, rowIndex, ~isCompatible),
                         elements, sel,
                         calls \o <<CallFlag("updateGhostElementWithPush", newPosition, rowIndex,
                                             duration(draggedElement), ~isCompatible)>>)
    ELSE Result(gs, elements, sel, calls)

\* timeline-item hover
hoverTimelineItem(gs, elements, sel, item, rowIndex, clientX) ==
    LET handoff == ~gs.isDragging /\ ~gs.isMultiDragging /\ find(elements, item.id).id # 0
        gs1 == IF handoff THEN startGhostDrag(gs, find(elements, item.id)) ELSE gs
        calls1 == IF handoff
                  THEN <<Call("startGhostDrag", Null, rowIndex, duration(find(elements, item.id)))>>
                  ELSE <<>>
        draggedElement == find(elements, item.id)
        selected == resolveSelected(elements, sel)
        draggedElementIsSelected == \E i \in 1..Len(selected) : selected[i].id = item.id
    IN  IF draggedElement.id = 0
        THEN Result(gs1, elements, sel, calls1)
        ELSE IF draggedElementIsSelected /\ Len(selected) > 1
        THEN LET gs2 == IF ~gs1.isMultiDragging
                        THEN startMultiGhostDrag(gs1, selected, draggedElement)
                        ELSE gs1
                 calls2 == IF ~gs1.isMultiDragging
                           THEN calls1 \o <<Call("startMultiGhostDrag", Null, rowIndex, 0)>>
                           ELSE calls1
                 gs3 == IF gs2.initialClientX = Null
                        THEN [gs2 EXCEPT !.initialClientX = clientX]
                        ELSE gs2
                 deltaX == clientX - gs3.initialClientX
                 deltaTime == pxToTime(deltaX)
                 idx == indexOfId(gs3.selectedElements, draggedElement.id)
                 newPosition == IF idx = -1 THEN NaN
                                ELSE clampToTimeline(gs3.initialElementStarts[idx] + deltaTime)
             IN  Result(updateMultiGhostElements(gs3, newPosition), elements, sel,
                        calls2 \o <<Call("updateMultiGhostElements", newPosition, rowIndex, 0)>>)
        ELSE hoverSingleGhost(gs1, elements, {}, rowIndex, clientX, calls1)

\* the row test of the animation and GL-transition hovers, here against audio rows
animationRowIncompatible_audio(rowType) == rowType # Undefined /\ rowType = "audio"

\* the row test of the animation and GL-transition hovers: rowType && rowType === 'text'
animationRowIncompatible(rowType) == rowType # Undefined /\ rowType = "text"

\* animation-effect / animation-drop / gl-transition-drop row hover (lines 291-355)
hoverPalette(gs, elements, sel, rowIndex, clientX, ghostType, ghostDur, isIncompatible) ==
    LET gs1 == IF ~gs.isGalleryDragging
               THEN startGalleryGhostDrag(gs, ghostType, ghostDur)
               ELSE gs
        startCalls == IF ~gs.isGalleryDragging
                      THEN <<Call("startGalleryGhostDrag", Null, rowIndex, ghostDur)>>
                      ELSE <<>>
        newPosition == pxToTime(mouseXOf(clientX))
    IN  Result(updateGalleryGhost(gs1, newPosition, rowIndex, isIncompatible), elements, sel,
               startCalls \o <<CallFlag("updateGalleryGhost", newPosition, rowIndex, ghostDur,
                                        isIncompatible)>>)

handleHover(gs, elements, sel, item, rowIndex, clientX, node) ==
    IF item.kind = "animation-effect"
    THEN hoverPalette(gs, elements, sel, rowIndex, clientX, "video",
                      IF item.duration = 0 THEN EffectDuration ELSE item.duration,
                      rowTypeOf(elements, rowIndex) # Undefined
                        /\ ~areTypesCompatible(rowTypeOf(elements, rowIndex), "video"))
    ELSE IF item.kind = "animation-drop"
    THEN hoverPalette(gs, elements, sel, rowIndex, clientX, "animation",
                      IF item.duration = 0 THEN AnimationGhostDuration ELSE item.duration,
                      animationRowIncompatible(rowTypeOf(elements, rowIndex)))
    ELSE IF item.kind = "gl-transition-drop"
    THEN hoverPalette(gs, elements, sel, rowIndex, clientX, "transition",
                      IF item.duration \in {0, Null} THEN TransitionGhostDuration ELSE item.duration,
                      animationRowIncompatible(rowTypeOf(elements, rowIndex)))
    ELSE IF item.kind = "gallery-image"
    THEN hoverGallery(gs, elements, sel, item, rowIndex, clientX, node, "imageUrl", ImageDuration)
    ELSE IF item.kind = "gallery-video"
    THEN hoverGallery(gs, elements, sel, item, rowIndex, clientX, node, "video",
                      IF item.duration = 0 THEN VideoDuration ELSE item.duration)
    ELSE hoverTimelineItem(gs, elements, sel, item, rowIndex, clientX)

\* ------------------------------------------------------------------------
\* useDrop: canDrop and drop
\* ------------------------------------------------------------------------
canDrop(item, elements, rowIndex) ==
    LET row == overlays(elements, rowIndex)
        rowType == rowTypeOf(elements, rowIndex)
        draggedElement == find(elements, item.id)
    IN  IF item.kind = "gallery-image"
        THEN Len(row) = 0 \/ areTypesCompatible(rowType, "imageUrl")
        ELSE IF item.kind = "gallery-video"
        THEN Len(row) = 0 \/ areTypesCompatible(rowType, "video")
        ELSE IF item.kind = "animation-effect"
        THEN Len(row) = 0 \/ areTypesCompatible(rowType, "video")
                \/ areTypesCompatible(rowType, "imageUrl")
        ELSE IF item.kind \in {"animation-drop", "gl-transition-drop"}
        THEN Len(row) = 0 \/ areTypesCompatible(rowType, "imageUrl")
                \/ areTypesCompatible(rowType, "video")
                \/ areTypesCompatible(rowType, "audio")
        ELSE IF draggedElement.id = 0 THEN FALSE
        ELSE (\E i \in 1..Len(row) : row[i].id = item.id)
                 \/ rowType = Undefined
                 \/ areTypesCompatible(rowType, draggedElement.type)

\* the gap scan of the fallback inserts: the first gap of at least minGap
\* a gap of exactly the wanted width is passed over
gapIndexes_strict(sorted, minGap) ==
    {i \in 0..Len(sorted) :
        LET currentStart == IF i = 0 THEN 0 ELSE sorted[i].end
            nextStart == IF i = Len(sorted) THEN maxTime ELSE sorted[i + 1].start
        IN  nextStart - currentStart > minGap}

gapIndexes(sorted, minGap) ==
    {i \in 0..Len(sorted) :
        LET currentStart == IF i = 0 THEN 0 ELSE sorted[i].end
            nextStart == IF i = Len(sorted) THEN maxTime ELSE sorted[i + 1].start
        IN  nextStart - currentStart >= minGap}

findGap(elements, rowIndex, minGap) ==
    LET rowElements == SelectSeq(elements, LAMBDA el : el.row = rowIndex)
        sorted == sortByStart(rowElements)
        idx == gapIndexes(sorted, minGap)
    IN  IF Len(rowElements) = 0 THEN [hasSpace |-> TRUE, startTime |-> 0]
        ELSE IF idx = {} THEN [hasSpace |-> FALSE, startTime |-> 0]
        ELSE LET i == CHOOSE k \in idx : \A j \in idx : k <= j
             IN  [hasSpace |-> TRUE, startTime |-> IF i = 0 THEN 0 ELSE sorted[i].end]

\* finishGalleryGhostDrag / finishFileGhostDrag: the resolved placement handed to the callback
resolveInsert(ghostElement, ghostDuration, finalPosition, rowIndex) ==
    [accepted |-> ~ghostElement.incompatible,
     startTime |-> clampStart(finalPosition, ghostDuration),
     targetRow |-> rowIndex]

\* a drop that takes only a row of the dragged element's own type
dropTimelineItem_sameTypeOnly(gs, elements, sel, rowIndex, clientX, commitOk) ==
    IF gs.isMultiDragging
    THEN LET icx == IF gs.initialClientX = Null THEN 0 ELSE gs.initialClientX
             deltaTime == pxToTime(clientX - icx)
             draggedIndex == indexOfId(gs.selectedElements, gs.draggedElement.id)
             finalPosition == IF draggedIndex = -1 THEN NaN
                              ELSE clampToTimeline(gs.initialElementStarts[draggedIndex] + deltaTime)
         IN  Result(finishMultiGhostDrag(gs, elements, finalPosition, commitOk).gs,
                    finishMultiGhostDrag(gs, elements, finalPosition, commitOk).els, sel,
                    <<Call("finishMultiGhostDrag", finalPosition, rowIndex, 0)>>)
    ELSE IF gs.isDragging
    THEN LET draggedElement == gs.draggedElement
             rowType == rowTypeOf(elements, rowIndex)
             isCompatible == rowType = Undefined \/ rowType = draggedElement.type
             icx == IF gs.initialClientX = Null THEN clientX ELSE gs.initialClientX
             deltaTime == pxToTime(clientX - icx)
             finalPosition == clampToTimeline(gs.initialElementStart + deltaTime)
         IN  IF ~isCompatible
             THEN Result(gs, elements, sel, <<>>)
             ELSE IF gs.isAnimationDrag
             THEN Result(finishAnimationGhostDrag(gs, elements, finalPosition, rowIndex, commitOk).gs,
                         finishAnimationGhostDrag(gs, elements, finalPosition, rowIndex, commitOk).els, sel,
                         <<Call("finishAnimationGhostDrag", finalPosition, rowIndex,
                                duration(draggedElement))>>)
             ELSE Result(finishGhostDrag(gs, elements, finalPosition, rowIndex, commitOk).gs,
                         finishGhostDrag(gs, elements, finalPosition, rowIndex, commitOk).els, sel,
                         <<Call("finishGhostDrag", finalPosition, rowIndex,
                                duration(draggedElement))>>)
    ELSE Result(gs, elements, sel, <<>>)

\* timeline-item drop (lines 543-610); commitOk: the store's commit goes through
dropTimelineItem(gs, elements, sel, rowIndex, clientX, commitOk) ==
    IF gs.isMultiDragging
    THEN LET icx == IF gs.initialClientX = Null THEN 0 ELSE gs.initialClientX
             deltaTime == pxToTime(clientX - icx)
             draggedIndex == indexOfId(gs.selectedElements, gs.draggedElement.id)
             finalPosition == IF draggedIndex = -1 THEN NaN
                              ELSE clampToTimeline(gs.initialElementStarts[draggedIndex] + deltaTime)
         IN  Result(finishMultiGhostDrag(gs, elements, finalPosition, commitOk).gs,
                    finishMultiGhostDrag(gs, elements, finalPosition, commitOk).els, sel,
                    <<Call("finishMultiGhostDrag", finalPosition, rowIndex, 0)>>)
    ELSE IF gs.isDragging
    THEN LET draggedElement == gs.draggedElement
             rowType == rowTypeOf(elements, rowIndex)
             isCompatible == rowType = Undefined \/ areTypesCompatible(rowType, draggedElement.type)
             icx == IF gs.initialClientX = Null THEN clientX ELSE gs.initialClientX
             deltaTime == pxToTime(clientX - icx)
             finalPosition == clampToTimeline(gs.initialElementStart + deltaTime)
         IN  IF ~isCompatible
             THEN Result(gs, elements, sel, <<>>)
             ELSE IF gs.isAnimationDrag
             THEN Result(finishAnimationGhostDrag(gs, elements, finalPosition, rowIndex, commitOk).gs,
                         finishAnimationGhostDrag(gs, elements, finalPosition, rowIndex, commitOk).els, sel,
                         <<Call("finishAnimationGhostDrag", finalPosition, rowIndex,
                                duration(draggedElement))>>)
             ELSE Result(finishGhostDrag(gs, elements, finalPosition, rowIndex, commitOk).gs,
                         finishGhostDrag(gs, elements, finalPosition, rowIndex, commitOk).els, sel,
                         <<Call("finishGhostDrag", finalPosition, rowIndex,
                                duration(draggedElement))>>)
    ELSE Result(gs, elements, sel, <<>>)

\* a gallery-image drop that maps the pointer without the left edge of the row
dropGalleryImage_clientX(gs, elements, sel, rowIndex, clientX) ==
    IF gs.isGalleryDragging /\ gs.galleryGhostElement # NullGhost
    THEN LET finalPosition == pxToTime(clientX)
             res == resolveInsert(gs.galleryGhostElement, gs.ghostDuration, finalPosition, rowIndex)
         IN  Result(resetGhostState(gs),
                    IF res.accepted THEN addImageLocal(elements, res.targetRow, res.startTime)
                    ELSE elements,
                    sel,
                    <<Call("finishGalleryGhostDrag", finalPosition, rowIndex, gs.ghostDuration)>>
                      \o (IF res.accepted
                          THEN <<Call("addImageLocal", res.startTime, res.targetRow, ImageDuration)>>
                          ELSE <<>>))
    ELSE LET gap == findGap(elements, rowIndex, ImageGap)
         IN  IF gap.hasSpace
             THEN Result(gs, addImageLocal(elements, rowIndex, gap.startTime), sel,
                         <<Call("addImageLocal", gap.startTime, rowIndex, ImageDuration)>>)
             ELSE Result(gs, addImageLocal(shiftRowsDown(elements, rowIndex + 1), rowIndex + 1, 0), sel,
                         <<Call("shiftRowsDown", Null, rowIndex + 1, 0),
                           Call("addImageLocal", 0, rowIndex + 1, ImageDuration)>>)

\* gallery-image drop (lines 612-691)
dropGalleryImage(gs, elements, sel, rowIndex, clientX) ==
    IF gs.isGalleryDragging /\ gs.galleryGhostElement # NullGhost
    THEN LET finalPosition == pxToTime(mouseXOf(clientX))
             res == resolveInsert(gs.galleryGhostElement, gs.ghostDuration, finalPosition, rowIndex)
         IN  Result(resetGhostState(gs),
                    IF res.accepted THEN addImageLocal(elements, res.targetRow, res.startTime)
                    ELSE elements,
                    sel,
                    <<Call("finishGalleryGhostDrag", finalPosition, rowIndex, gs.ghostDuration)>>
                      \o (IF res.accepted
                          THEN <<Call("addImageLocal", res.startTime, res.targetRow, ImageDuration)>>
                          ELSE <<>>))
    ELSE LET gap == findGap(elements, rowIndex, ImageGap)
         IN  IF gap.hasSpace
             THEN Result(gs, addImageLocal(elements, rowIndex, gap.startTime), sel,
                         <<Call("addImageLocal", gap.startTime, rowIndex, ImageDuration)>>)
             ELSE Result(gs, addImageLocal(shiftRowsDown(elements, rowIndex + 1), rowIndex + 1, 0), sel,
                         <<Call("shiftRowsDown", Null, rowIndex + 1, 0),
                           Call("addImageLocal", 0, rowIndex + 1, ImageDuration)>>)

\* gallery-video drop (lines 693-801); the fallback calls pass no startTime
dropGalleryVideo(gs, elements, sel, item, rowIndex, clientX) ==
    IF gs.isGalleryDragging /\ gs.galleryGhostElement # NullGhost
    THEN LET finalPosition == pxToTime(mouseXOf(clientX))
             res == resolveInsert(gs.galleryGhostElement, gs.ghostDuration, finalPosition, rowIndex)
         IN  Result(resetGhostState(gs),
                    IF res.accepted
                    THEN handleVideoUploadFromUrl(elements, item.duration, res.targetRow, res.startTime)
                    ELSE elements,
                    sel,
                    <<Call("finishGalleryGhostDrag", finalPosition, rowIndex, gs.ghostDuration)>>
                      \o (IF res.accepted
                          THEN <<Call("handleVideoUploadFromUrl", res.startTime, res.targetRow, item.duration)>>
                          ELSE <<>>))
    ELSE LET gap == findGap(elements, rowIndex, VideoGap)
         IN  IF gap.hasSpace
             THEN Result(gs, handleVideoUploadFromUrl(elements, item.duration, rowIndex, Null), sel,
                         <<Call("handleVideoUploadFromUrl", Null, rowIndex, item.duration)>>)
             ELSE Result(gs, handleVideoUploadFromUrl(shiftRowsDown(elements, rowIndex + 1),
                                                      item.duration, rowIndex + 1, Null), sel,
                         <<Call("shiftRowsDown", Null, rowIndex + 1, 0),
                           Call("handleVideoUploadFromUrl", Null, rowIndex + 1, item.duration)>>)

\* animation-effect drop (lines 803-991); the inserted video becomes the selection
dropAnimationEffect(gs, elements, sel, item, rowIndex, clientX) ==
    IF gs.isGalleryDragging /\ gs.galleryGhostElement # NullGhost
    THEN LET finalPosition == pxToTime(mouseXOf(clientX))
             res == resolveInsert(gs.galleryGhostElement, gs.ghostDuration, finalPosition, rowIndex)
         IN  Result(resetGhostState(gs),
                    IF res.accepted
                    THEN handleVideoUploadFromUrl(elements, item.duration, res.targetRow, res.startTime)
                    ELSE elements,
                    IF res.accepted THEN {getUid(elements)} ELSE sel,
                    <<Call("finishGalleryGhostDrag", finalPosition, rowIndex, gs.ghostDuration)>>
                      \o (IF res.accepted
                          THEN <<Call("handleVideoUploadFromUrl", res.startTime, res.targetRow, item.duration),
                                 Call("setSelectedElements", Null, res.targetRow, 0)>>
                          ELSE <<>>))
    ELSE LET gap == findGap(elements, rowIndex, EffectGap)
         IN  IF gap.hasSpace
             THEN Result(gs, handleVideoUploadFromUrl(elements, item.duration, rowIndex, Null),
                         {getUid(elements)},
                         <<Call("handleVideoUploadFromUrl", Null, rowIndex, item.duration),
                           Call("setSelectedElements", Null, rowIndex, 0)>>)
             ELSE Result(gs, handleVideoUploadFromUrl(shiftRowsDown(elements, rowIndex + 1),
                                                      item.duration, rowIndex + 1, Null),
                         {getUid(elements)},
                         <<Call("shiftRowsDown", Null, rowIndex + 1, 0),
                           Call("handleVideoUploadFromUrl", Null, rowIndex + 1, item.duration),
                           Call("setSelectedElements", Null, rowIndex + 1, 0)>>)

\* window.dispatchSaveTimelineState && !store.isUndoRedoOperation: the hook call, if made
saveHook(saveEnabled) ==
    IF saveEnabled THEN <<Call("dispatchSaveTimelineState", Null, Null, 0)>> ELSE <<>>

\* actualProperties.duration || animationData.duration || 600
animationDurationOf(item) ==
    IF item.propDuration # 0 THEN item.propDuration
    ELSE IF item.duration # 0 THEN item.duration
    ELSE AnimationDuration

\* the store calls that add the animation at startTime on targetRow
addAnimationCalls(item, startTime, targetRow, saveEnabled) ==
    <<CallRange("addAnimation", startTime, targetRow, animationDurationOf(item),
                startTime + animationDurationOf(item)),
      Call("validateAndUpdateAnimationTargets", Null, targetRow, 0),
      Call("scheduleAnimationRefresh", Null, Null, 0)>> \o saveHook(saveEnabled)

\* animation-drop drop (lines 993-1155)
dropAnimation(gs, elements, sel, item, rowIndex, clientX, saveEnabled) ==
    IF gs.isDragging /\ gs.isAnimationDrag
    THEN Result(gs, elements, sel, <<>>)
    ELSE IF gs.isGalleryDragging /\ gs.galleryGhostElement # NullGhost
    THEN LET finalPosition == pxToTime(mouseXOf(clientX))
             res == resolveInsert(gs.galleryGhostElement, gs.ghostDuration, finalPosition, rowIndex)
         IN  Result(resetGhostState(gs), elements, sel,
                    <<Call("finishGalleryGhostDrag", finalPosition, rowIndex, gs.ghostDuration)>>
                      \o (IF res.accepted
                          THEN addAnimationCalls(item, res.startTime, res.targetRow, saveEnabled)
                          ELSE <<>>))
    ELSE Result(gs, elements, sel, addAnimationCalls(item, 0, rowIndex, saveEnabled))

\* startTime + glTransitionData.duration; a missing duration gives NaN
transitionEnd(startTime, dur) == IF dur = Null THEN NaN ELSE startTime + dur

\* gl-transition-drop drop (lines 1157-1279)
dropGLTransition(gs, elements, sel, item, rowIndex, clientX, saveEnabled) ==
    IF gs.isDragging /\ gs.isAnimationDrag
    THEN Result(gs, elements, sel, <<>>)
    ELSE IF gs.isGalleryDragging /\ gs.galleryGhostElement # NullGhost
    THEN LET finalPosition == pxToTime(mouseXOf(clientX))
             res == resolveInsert(gs.galleryGhostElement, gs.ghostDuration, finalPosition, rowIndex)
             end == transitionEnd(res.startTime, item.duration)
         IN  Result(resetGhostState(gs),
                    IF res.accepted
                    THEN Append(elements, [id |-> getUid(elements), type |-> "animation",
                                           row |-> res.targetRow, start |-> res.startTime, end |-> end])
                    ELSE elements,
                    sel,
                    <<Call("finishGalleryGhostDrag", finalPosition, rowIndex, gs.ghostDuration)>>
                      \o (IF res.accepted
                          THEN <<CallRange("animations.push", res.startTime, res.targetRow,
                                           item.duration, end),
                                 CallRange("editorElements.push", res.startTime, res.targetRow,
                                           item.duration, end),
                                 Call("validateAndUpdateAnimationTargets", Null, res.targetRow, 0),
                                 Call("scheduleAnimationRefresh", Null, Null, 0)>>
                                 \o saveHook(saveEnabled)
                          ELSE <<>>))
    ELSE Result(gs, elements, sel, <<>>)

drop(gs, elements, sel, item, rowIndex, clientX, commitOk, saveEnabled) ==
    IF item.kind = "animation-effect"
    THEN dropAnimationEffect(gs, elements, sel, item, rowIndex, clientX)
    ELSE IF item.kind = "animation-drop"
    THEN dropAnimation(gs, elements, sel, item, rowIndex, clientX, saveEnabled)
    ELSE IF item.kind = "gl-transition-drop"
    THEN dropGLTransition(gs, elements, sel, item, rowIndex, clientX, saveEnabled)
    ELSE IF item.kind = "timeline-item" /\ (gs.isDragging \/ gs.isMultiDragging)
    THEN dropTimelineItem(gs, elements, sel, rowIndex, clientX, commitOk)
    ELSE IF item.kind = "gallery-image"
    THEN dropGalleryImage(gs, elements, sel, rowIndex, clientX)
    ELSE IF item.kind = "gallery-video"
    THEN dropGalleryVideo(gs, elements, sel, item, rowIndex, clientX)
    ELSE Result(gs, elements, sel, <<>>)

\* ------------------------------------------------------------------------
\* Native file drag handlers
\* ------------------------------------------------------------------------
FileTypes == {"audio/", "image/", "video/"}

fileElementType(fileType) ==
    IF fileType = "audio/" THEN "audio"
    ELSE IF fileType = "video/" THEN "video"
    ELSE "imageUrl"

\* handleDragEnter (lines 1541-1593); seenType is dataTransfer.items[0].type
handleDragEnter(gs, elements, isDraggingTimelineElement, seenType, rowIndex) ==
    LET row == overlays(elements, rowIndex)
        rowType == rowTypeOf(elements, rowIndex)
        accepts == seenType \in FileTypes
                     /\ (Len(row) = 0 \/ areTypesCompatible(rowType, fileElementType(seenType)))
        defaultDuration == IF seenType = "audio/" THEN FileAudioDuration
                           ELSE IF seenType = "video/" THEN VideoDuration
                           ELSE ImageDuration
    IN  IF isDraggingTimelineElement \/ ~accepts \/ gs.isFileDragging
        THEN Result(gs, elements, {}, <<>>)
        ELSE Result(startFileGhostDrag(gs, fileElementType(seenType), defaultDuration), elements, {},
                    <<Call("startFileGhostDrag", Null, rowIndex, defaultDuration)>>)

\* handleDragOver (lines 1595-1622)
handleDragOver(gs, elements, seenType, rowIndex, clientX) ==
    IF gs.isFileDragging
    THEN LET newPosition == pxToTime(mouseXOf(clientX))
             rowType == rowTypeOf(elements, rowIndex)
             isIncompatible == rowType # Undefined
                                 /\ ~areTypesCompatible(rowType, fileElementType(seenType))
         IN  Result(updateFileGhost(gs, newPosition, rowIndex, isIncompatible), elements, {},
                    <<CallFlag("updateFileGhost", newPosition, rowIndex, gs.ghostDuration, isIncompatible)>>)
    ELSE Result(gs, elements, {}, <<>>)

\* handleFileDropWithPosition (lines 1345-1413)
\* the catch blocks of the uploads (lines 1362-1364, 1409-1411, 1529-1531)
uploadFailed == <<Call("handleCatchError", Null, Null, 0)>>

\* an image file is inserted although its upload failed
handleFileDropWithPosition_insertFirst(elements, fileType, fileDuration, uploadOk, startTime, targetRow) ==
    IF fileType = "image/"
    THEN [els |-> Append(elements, [id |-> 1 + Len(elements), type |-> "imageUrl", row |-> targetRow,
                                    start |-> startTime, end |-> startTime + 5000]),
          calls |-> IF uploadOk THEN <<>> ELSE <<[name |-> "handleCatchError", pos |-> 0 - 1,
                                                  row |-> 0 - 1, dur |-> 0, end |-> 0 - 1,
                                                  flag |-> FALSE]>>]
    ELSE [els |-> elements, calls |-> <<>>]

handleFileDropWithPosition(elements, fileType, fileDuration, uploadOk, startTime, targetRow) ==
    IF fileType = "image/"
    THEN IF uploadOk
         THEN [els |-> addImageLocal(elements, targetRow, startTime),
               calls |-> <<Call("addImageLocal", startTime, targetRow, ImageDuration)>>]
         ELSE [els |-> elements, calls |-> uploadFailed]
    ELSE IF fileType = "video/"
    THEN IF uploadOk
         THEN [els |-> handleVideoUploadFromUrl(elements, fileDuration, targetRow, startTime),
               calls |-> <<Call("handleVideoUpload", Null, Null, 0),
                           Call("handleVideoUploadFromUrl", startTime, targetRow, fileDuration)>>]
         ELSE [els |-> elements,
               calls |-> <<Call("handleVideoUpload", Null, Null, 0)>> \o uploadFailed]
    ELSE [els |-> elements, calls |-> <<>>]

\* onFileDrop (lines 1415-1535)
onFileDrop(gs, elements, isDraggingTimelineElement, nRows, fileType, fileDuration, uploadOk, rowIndex, clientX) ==
    IF isDraggingTimelineElement THEN Result(gs, elements, {}, <<>>)
    ELSE IF gs.isFileDragging /\ gs.fileGhostElement # NullGhost
    THEN LET finalPosition == pxToTime(mouseXOf(clientX))
             res == resolveInsert(gs.fileGhostElement, gs.ghostDuration, finalPosition, rowIndex)
             cb == handleFileDropWithPosition(elements, fileType, fileDuration, uploadOk,
                                              res.startTime, res.targetRow)
         IN  Result(resetGhostState(gs),
                    IF res.accepted THEN cb.els ELSE elements, {},
                    <<Call("finishFileGhostDrag", finalPosition, rowIndex, gs.ghostDuration)>>
                      \o (IF res.accepted THEN cb.calls ELSE <<>>))
    ELSE IF fileType = "image/" /\ ~uploadOk
    THEN Result(gs, elements, {}, uploadFailed)
    ELSE IF fileType = "image/"
    THEN LET row == overlays(elements, rowIndex)
             rowType == rowTypeOf(elements, rowIndex)
             gap == findGap(elements, rowIndex, ImageGap)
         IN  IF Len(row) = 0 \/ areTypesCompatible(rowType, "imageUrl")
             THEN IF gap.hasSpace
                  THEN Result(gs, addImageLocal(elements, rowIndex, gap.startTime), {},
                              <<Call("addImageLocal", gap.startTime, rowIndex, ImageDuration)>>)
                  ELSE Result(gs, addImageLocal(shiftRowsDown(elements, rowIndex + 1), rowIndex + 1, 0), {},
                              <<Call("shiftRowsDown", Null, rowIndex + 1, 0),
                                Call("addImageLocal", 0, rowIndex + 1, ImageDuration)>>)
             ELSE Result(gs, addImageLocal(elements, nRows, 0), {},
                         <<Call("addImageLocal", 0, nRows, ImageDuration)>>)
    ELSE Result(gs, elements, {}, <<>>)

\* ------------------------------------------------------------------------
\* Row drag handle (lines 1674-1825)
\* ------------------------------------------------------------------------
defaultHeight(rowType) ==
    CASE rowType = "text" -> 28
      [] rowType = "image" -> 40
      [] rowType = "imageUrl" -> 40
      [] rowType = "audio" -> 36
      [] rowType = "transition" -> 24
      [] rowType = "video" -> 44
      [] rowType = "animation" -> 26
      [] OTHER -> 32

RECURSIVE rowTop(_, _)
rowTop(elements, rowIndex) ==
    IF rowIndex = 0 THEN 0
    ELSE rowTop(elements, rowIndex - 1) + defaultHeight(rowTypeOf(elements, rowIndex - 1))

rowBottom(elements, rowIndex) == rowTop(elements, rowIndex) + defaultHeight(rowTypeOf(elements, rowIndex))

\* document.elementFromPoint(...).closest('[data-row-index]'): Null when no row is under the pointer
hoveredRow(elements, nRows, clientY) ==
    IF \E r \in 0..(nRows - 1) : rowTop(elements, r) <= clientY /\ clientY < rowBottom(elements, r)
    THEN CHOOSE r \in 0..(nRows - 1) : rowTop(elements, r) <= clientY /\ clientY < rowBottom(elements, r)
    ELSE Null

\* a target that switches at the middle of the candidate row
resolveRowTarget_candidateMidpoint(elements, nRows, rowIndex, clientY) ==
    LET candidateIndex == hoveredRow(elements, nRows, clientY)
    IN  IF candidateIndex = Null \/ candidateIndex = rowIndex THEN rowIndex
        ELSE IF candidateIndex > rowIndex
        THEN IF 2 * clientY >= rowTop(elements, candidateIndex) + rowBottom(elements, candidateIndex)
             THEN candidateIndex ELSE rowIndex
        ELSE IF 2 * clientY <= rowTop(elements, candidateIndex) + rowBottom(elements, candidateIndex)
             THEN candidateIndex ELSE rowIndex

\* the target resolved by handleMouseMove (lines 1695-1751)
resolveRowTarget(elements, nRows, rowIndex, clientY) ==
    LET candidateIndex == hoveredRow(elements, nRows, clientY)
    IN  IF candidateIndex = Null \/ candidateIndex = rowIndex THEN rowIndex
        ELSE IF candidateIndex > rowIndex
        THEN IF 2 * clientY >= rowBottom(elements, rowIndex) + rowTop(elements, candidateIndex)
             THEN candidateIndex ELSE rowIndex
        ELSE IF 2 * clientY <= rowBottom(elements, candidateIndex) + rowTop(elements, rowIndex)
             THEN candidateIndex ELSE rowIndex

handleMouseMove(gs, elements, nRows, rowIndex, clientY) ==
    LET target == resolveRowTarget(elements, nRows, rowIndex, clientY)
    IN  IF target # rowIndex
        THEN Result(updateRowDragOver(gs, target, IF target > rowIndex THEN "below" ELSE "above"),
                    elements, {}, <<Call("updateRowDragOver", Null, target, 0)>>)
        ELSE Result(updateRowDragOver(gs, Null, "none"), elements, {},
                    <<Call("updateRowDragOver", Null, Null, 0)>>)

\* the target resolved by handleMouseUp (lines 1753-1795)
resolveRowTargetUp(elements, nRows, rowIndex, clientY) ==
    LET hoveredWrapper == hoveredRow(elements, nRows, clientY)
        candidateIndex == hoveredWrapper
    IN  IF nRows = 0 THEN rowIndex
        ELSE IF hoveredWrapper = Null THEN rowIndex
        ELSE IF candidateIndex = rowIndex THEN rowIndex
        ELSE IF candidateIndex > rowIndex
        THEN LET boundary2 == rowBottom(elements, rowIndex) + rowTop(elements, candidateIndex)
             IN  IF 2 * clientY >= boundary2 THEN candidateIndex ELSE rowIndex
        ELSE LET boundary2 == rowBottom(elements, candidateIndex) + rowTop(elements, rowIndex)
             IN  IF 2 * clientY <= boundary2 THEN candidateIndex ELSE rowIndex

\* a mouse-up that finishes the row drag whatever the target
handleMouseUp_alwaysFinish(gs, elements, nRows, rowIndex, clientY) ==
    LET hovered == IF \E r \in 0..(nRows - 1) :
                        rowTop(elements, r) <= clientY /\ clientY < rowBottom(elements, r)
                   THEN CHOOSE r \in 0..(nRows - 1) :
                        rowTop(elements, r) <= clientY /\ clientY < rowBottom(elements, r)
                   ELSE rowIndex
    IN  Result(resetGhostState(gs), finishRowDragElements(gs, elements, hovered), {},
               <<Call("finishRowDrag", Null, hovered, 0)>>)

handleMouseUp(gs, elements, nRows, rowIndex, clientY) ==
    LET target == resolveRowTargetUp(elements, nRows, rowIndex, clientY)
    IN  IF target # rowIndex
        THEN Result(resetGhostState(gs), finishRowDragElements(gs, elements, target), {},
                    <<Call("finishRowDrag", Null, target, 0)>>)
        ELSE Result(resetGhostState(gs), elements, {}, <<Call("cancelRowDrag", Null, rowIndex, 0)>>)

\* ------------------------------------------------------------------------
\* Initial states
\* ------------------------------------------------------------------------
\* video.duration of a gallery asset: 0 stands for an asset that carries none
VideoAssetDurations == {0, 8000}
\* the length probed from a dropped video file
FileVideoLengths == {8000}

El(id, type, row, start, end) == [id |-> id, type |-> type, row |-> row, start |-> start, end |-> end]

\* timelines the editor starts from: rows hold mutually compatible,
\* non-overlapping elements; list order is insertion order
InitTimelines ==
    { <<>>,
      <<El(1, "video", 0, 5000, 7000)>>,
      <<El(1, "video", 0, 3000, maxTime)>>,
      <<El(1, "video", 0, ImageGap, maxTime)>>,
      <<El(1, "text", 0, 0, 2000), El(2, "video", 1, 0, 12000)>>,
      <<El(1, "video", 0, 5000, 7000), El(2, "animation", 0, 0, 2000)>>,
      <<El(1, "animation", 0, 0, 2000), El(2, "text", 1, 5000, 7000)>>,
      <<El(1, "imageUrl", 0, 0, 2000), El(2, "audio", 0, 5000, 7000)>>,
      <<El(1, "text", 0, 0, 2000), El(2, "text", 0, 5000, 7000)>>,
      <<El(1, "audio", 0, 0, 2000), El(2, "image", 1, 5000, 7000)>> }

RowsConsistent(elements) ==
    \A i, j \in 1..Len(elements) :
        (i < j /\ elements[i].row = elements[j].row) =>
            /\ areTypesCompatible(elements[i].type, elements[j].type)
            /\ (elements[i].end <= elements[j].start \/ elements[j].end <= elements[i].start)

AllIds(elements) == {elements[i].id : i \in 1..Len(elements)}

Init ==
    /\ editorElements \in InitTimelines
    /\ maxRows = NumRows
    /\ selectedElements \in {{}} \cup {AllIds(editorElements) : n \in {Len(editorElements)} \ {0, 1}}
    /\ RowsConsistent(editorElements)
    /\ ghostState = EmptyGhostState
    /\ dnd = NoGesture
    /\ committed = FALSE
    /\ last = NoLast
    /\ cmp = NoCmp
    /\ animations = <<>>
    /\ RefreshIdle

\* ------------------------------------------------------------------------
\* Actions
\* ------------------------------------------------------------------------
PaletteKinds == {"animation-effect", "animation-drop", "gl-transition-drop"}
DndKinds == {"timeline-item", "gallery-image", "gallery-video"} \cup PaletteKinds

\* durations carried by what is dragged from the effect, animation and transition
\* lists: 0 stands for a zero or missing duration, Null for a transition without one
EffectDurations == {0}
AnimationPayloads == {<<0, 0>>, <<0, 1000>>, <<400, 1000>>}
TransitionDurations == {Null, 0, 1000}

\* store.animations after the calls of a handler
animationsAfter(anims, calls) ==
    LET added == SelectSeq(calls, LAMBDA c : c.name \in {"addAnimation", "animations.push"})
    IN  anims \o [i \in 1..Len(added) |->
                    [row |-> added[i].row, start |-> added[i].pos, end |-> added[i].end,
                     duration |-> added[i].dur]]
isDraggingTimelineElement == dnd.kind = "timeline-item"

\* the ghost variant in the slot
ghostKind(gs) ==
    IF gs.isDragging THEN "singleMove"
    ELSE IF gs.isMultiDragging THEN "multiMove"
    ELSE IF gs.isGalleryDragging THEN "galleryInsert"
    ELSE IF gs.isFileDragging THEN "fileInsert"
    ELSE IF gs.isDraggingRow THEN "rowReorder"
    ELSE "none"

highestRow(elements) ==
    IF Len(elements) = 0 THEN -1
    ELSE CHOOSE r \in {elements[i].row : i \in 1..Len(elements)} :
            \A i \in 1..Len(elements) : elements[i].row <= r

\* store.maxRows after a handler ran
rowsAfter(nRows, res) ==
    LET shifted == \E i \in 1..Len(res.calls) : res.calls[i].name = "shiftRowsDown"
    IN  Max(IF shifted THEN nRows + 1 ELSE nRows, highestRow(res.els) + 1)

\* the operations that start a ghost
StartOps == {"startGhostDrag", "startMultiGhostDrag", "startGalleryGhostDrag", "startFileGhostDrag"}

\* the start operations among the calls of a handler
startsIn(calls) == {calls[i].name : i \in 1..Len(calls)} \cap StartOps

\* a handler ran with the pointer at height clientY
ApplyAt(op, rowIndex, clientY, res) ==
    /\ ghostState' = res.gs
    /\ editorElements' = res.els
    /\ maxRows' = rowsAfter(maxRows, res)
    /\ animations' = animationsAfter(animations, res.calls)
    /\ committed' = (committed \/ res.els # editorElements
                        \/ animationsAfter(animations, res.calls) # animations)
    /\ last' = [op |-> op, kind |-> dnd.kind, id |-> dnd.id, ghost |-> ghostKind(ghostState),
                row |-> rowIndex, y |-> clientY, calls |-> res.calls]
    /\ cmp' = cmp
    /\ UNCHANGED refreshVars

Apply(op, rowIndex, res) == ApplyAt(op, rowIndex, Null, res)

\* drag source of a timeline item: begin; with handoff the source starts no ghost
DragStart(id, handoff) ==
    /\ dnd = NoGesture
    /\ ~committed
    /\ id \in AllIds(editorElements)
    /\ LET el == find(editorElements, id)
           selected == resolveSelected(editorElements, selectedElements)
           gs == IF handoff THEN ghostState
                 ELSE IF id \in selectedElements /\ Len(selected) > 1
                 THEN startMultiGhostDrag(ghostState, selected, el)
                 ELSE startGhostDrag(ghostState, el)
       IN  /\ Apply("dragStart", Null, Result(gs, editorElements, selectedElements, <<>>))
           /\ dnd' = [NoGesture EXCEPT !.kind = "timeline-item", !.id = id,
                                       !.started = IF handoff THEN {}
                                                   ELSE IF id \in selectedElements /\ Len(selected) > 1
                                                   THEN {"startMultiGhostDrag"}
                                                   ELSE {"startGhostDrag"}]
           /\ UNCHANGED selectedElements

GalleryDragStart(kind, dur) ==
    /\ dnd = NoGesture
    /\ ~committed
    /\ Apply("dragStart", Null, Result(ghostState, editorElements, selectedElements, <<>>))
    /\ dnd' = [NoGesture EXCEPT !.kind = kind, !.duration = dur]
    /\ UNCHANGED selectedElements

\* drag source of an effect, an animation or a GL transition: begin
PaletteDragStart(kind, dur, propDur) ==
    /\ dnd = NoGesture
    /\ ~committed
    /\ Apply("dragStart", Null, Result(ghostState, editorElements, selectedElements, <<>>))
    /\ dnd' = [NoGesture EXCEPT !.kind = kind, !.duration = dur, !.propDuration = propDur]
    /\ UNCHANGED selectedElements

Hover(rowIndex, clientX, node) ==
    /\ dnd.kind \in DndKinds
    /\ ~dnd.didDrop
    /\ dnd.kind \notin {"gallery-image", "gallery-video"} => node = 0
    /\ node > 0 => find(editorElements, node).row = rowIndex
    /\ LET res == handleHover(ghostState, editorElements, selectedElements, dnd, rowIndex, clientX, node)
       IN  /\ Apply("hover", rowIndex, res)
           /\ selectedElements' = res.sel
    /\ dnd' = [dnd EXCEPT !.row = rowIndex, !.x = clientX, !.node = node,
                          !.firstX = IF dnd.kind = "timeline-item" /\ dnd.firstX = Null
                                     THEN clientX ELSE @,
                          !.started = @ \cup startsIn(last'.calls)]

\* the item under the pointer takes the drop itself
childTakesDrop(item, elements) ==
    /\ item.node > 0
    /\ \/ item.kind = "gallery-image" /\ find(elements, item.node).type = "imageUrl"
       \/ item.kind = "gallery-video" /\ find(elements, item.node).type = "video"

\* release over a row that can take the drop
Drop(commitOk, saveEnabled) ==
    /\ dnd.kind \in DndKinds
    /\ ~dnd.didDrop
    /\ dnd.row # Null
    /\ ~committed
    /\ canDrop(dnd, editorElements, dnd.row)
    /\ commitOk \/ (dnd.kind = "timeline-item" /\ AnyDragActive(ghostState))
    /\ saveEnabled \/ dnd.kind \in {"animation-drop", "gl-transition-drop"}
    /\ LET res == IF childTakesDrop(dnd, editorElements)
                  THEN Result(ghostState, editorElements, selectedElements, <<>>)
                  ELSE drop(ghostState, editorElements, selectedElements, dnd, dnd.row, dnd.x,
                            commitOk, saveEnabled)
       IN  /\ Apply("drop", dnd.row, res)
           /\ selectedElements' = res.sel
    /\ dnd' = [dnd EXCEPT !.didDrop = TRUE]

\* drag source: end of the gesture, after a drop or without one (cancel)
EndDrag ==
    /\ dnd.kind \in DndKinds
    /\ Apply(IF dnd.didDrop THEN "endDrag" ELSE "cancelDrag", dnd.row,
             Result(resetGhostState(ghostState), editorElements, selectedElements, <<>>))
    /\ dnd' = NoGesture
    /\ UNCHANGED selectedElements

FileDragEnter(fileType, fileDuration, seenType, rowIndex) ==
    /\ \/ /\ dnd = NoGesture
          /\ ~committed
          /\ seenType \in {"", fileType}
       \/ /\ dnd.kind = "file"
          /\ ~dnd.didDrop
          /\ dnd.fileType = fileType /\ dnd.duration = fileDuration /\ dnd.seenType = seenType
    /\ fileType = "video/" <=> fileDuration \in FileVideoLengths
    /\ Apply("fileDragEnter", rowIndex,
             handleDragEnter(ghostState, editorElements, isDraggingTimelineElement, seenType, rowIndex))
    /\ dnd' = [dnd EXCEPT !.kind = "file", !.fileType = fileType, !.duration = fileDuration,
                          !.seenType = seenType, !.started = @ \cup startsIn(last'.calls)]
    /\ UNCHANGED selectedElements

FileDragOver(rowIndex, clientX) ==
    /\ dnd.kind = "file"
    /\ ~dnd.didDrop
    /\ Apply("fileDragOver", rowIndex,
             handleDragOver(ghostState, editorElements, dnd.seenType, rowIndex, clientX))
    /\ dnd' = [dnd EXCEPT !.row = rowIndex, !.x = clientX]
    /\ UNCHANGED selectedElements

FileDrop(uploadOk) ==
    /\ dnd.kind = "file"
    /\ dnd.row # Null
    /\ ~committed
    /\ Apply("fileDrop", dnd.row,
             onFileDrop(ghostState, editorElements, isDraggingTimelineElement, maxRows,
                        dnd.fileType, dnd.duration, uploadOk, dnd.row, dnd.x))
    /\ dnd' = [dnd EXCEPT !.didDrop = TRUE, !.uploadOk = uploadOk]
    /\ UNCHANGED selectedElements

\* global drag-end handling of the grid: the file gesture is over
FileDragEnd ==
    /\ dnd.kind = "file"
    /\ Apply(IF dnd.didDrop THEN "endDrag" ELSE "cancelDrag", dnd.row,
             Result(resetGhostState(ghostState), editorElements, selectedElements, <<>>))
    /\ dnd' = NoGesture
    /\ UNCHANGED selectedElements

RowMouseDown(rowIndex) ==
    /\ dnd = NoGesture
    /\ ~committed
    /\ Len(overlays(editorElements, rowIndex)) > 0
    /\ Apply("rowMouseDown", rowIndex,
             Result(startRowDrag(ghostState, rowIndex), editorElements, selectedElements,
                    <<Call("startRowDrag", Null, rowIndex, 0)>>))
    /\ dnd' = [NoGesture EXCEPT !.kind = "rowHandle", !.row = rowIndex]
    /\ UNCHANGED selectedElements

RowMouseMove(clientY) ==
    /\ dnd.kind = "rowHandle"
    /\ ApplyAt("rowMouseMove", dnd.row, clientY,
               handleMouseMove(ghostState, editorElements, maxRows, dnd.row, clientY))
    /\ UNCHANGED <<dnd, selectedElements>>

RowMouseUp(clientY) ==
    /\ dnd.kind = "rowHandle"
    /\ ApplyAt("rowMouseUp", dnd.row, clientY,
               handleMouseUp(ghostState, editorElements, maxRows, dnd.row, clientY))
    /\ dnd' = NoGesture
    /\ UNCHANGED selectedElements

\* pointer heights tried: above the rows, and the edges and middle of each row
ClientYs(elements, nRows) ==
    {-1} \cup UNION {{rowTop(elements, r), rowTop(elements, r) + 1,
                      (rowTop(elements, r) + rowBottom(elements, r)) \div 2,
                      rowBottom(elements, r) - 1} : r \in 0..(nRows - 1)}

Next ==
    \/ \E id \in AllIds(editorElements), handoff \in BOOLEAN : DragStart(id, handoff)
    \/ \E kind \in {"gallery-image"} : GalleryDragStart(kind, 0)
    \/ \E dur \in VideoAssetDurations : GalleryDragStart("gallery-video", dur)
    \/ \E r \in Rows, x \in ClientXs, node \in {UnknownNode, 0} \cup AllIds(editorElements) : Hover(r, x, node)
    \/ \E dur \in EffectDurations : PaletteDragStart("animation-effect", dur, 0)
    \/ \E payload \in AnimationPayloads : PaletteDragStart("animation-drop", payload[2], payload[1])
    \/ \E dur \in TransitionDurations : PaletteDragStart("gl-transition-drop", dur, 0)
    \/ \E commitOk \in BOOLEAN, saveEnabled \in BOOLEAN : Drop(commitOk, saveEnabled)
    \/ EndDrag
    \/ \E ft \in FileTypes, fd \in {0} \cup FileVideoLengths, seen \in FileTypes \cup {""}, r \in Rows :
            FileDragEnter(ft, fd, seen, r)
    \/ \E r \in Rows, x \in ClientXs : FileDragOver(r, x)
    \/ \E ok \in BOOLEAN : FileDrop(ok)
    \/ FileDragEnd
    \/ \E r \in Rows : RowMouseDown(r)
    \/ \E y \in ClientYs(editorElements, maxRows) : RowMouseMove(y)
    \/ \E y \in ClientYs(editorElements, maxRows) : RowMouseUp(y)

Spec == Init /\ [][Next]_vars

\* ------------------------------------------------------------------------
\* The compatibility function on its own: inputs drawn at random, then called
\* in both argument orders
\* ------------------------------------------------------------------------
InitCompat ==
    /\ editorElements = <<>>
    /\ maxRows = NumRows
    /\ selectedElements = {}
    /\ ghostState = EmptyGhostState
    /\ dnd = NoGesture
    /\ committed = FALSE
    /\ last = NoLast
    /\ \E t1 \in AllTypes, t2 \in AllTypes : cmp = [NoCmp EXCEPT !.type1 = t1, !.type2 = t2]
    /\ animations = <<>>
    /\ RefreshIdle

CallCompat ==
    /\ ~cmp.called
    /\ cmp' = [cmp EXCEPT !.called = TRUE, !.result = areTypesCompatible(cmp.type1, cmp.type2)]
    /\ UNCHANGED <<editorElements, maxRows, selectedElements, ghostState, dnd, committed, last, animations>>
    /\ UNCHANGED refreshVars

CallCompatSwapped ==
    /\ ~cmp.calledSwapped
    /\ cmp' = [cmp EXCEPT !.calledSwapped = TRUE, !.swapped = areTypesCompatible(cmp.type2, cmp.type1)]
    /\ UNCHANGED <<editorElements, maxRows, selectedElements, ghostState, dnd, committed, last, animations>>
    /\ UNCHANGED refreshVars

NextCompat == CallCompat \/ CallCompatSwapped

SpecCompat == InitCompat /\ [][NextCompat]_vars

\* ------------------------------------------------------------------------
\* refreshElementsUtil: the scene pass (refreshElements.js)
\* ------------------------------------------------------------------------
MaxPasses == 3

NoObj == [name |-> 0, made |-> 0, left |-> 0, width |-> 0, scaleX |-> 0, selected |-> 0]

\* a scene element: placement (x, width, scaleX), the natural width of its
\* <img>, whether its DOM element exists, whether its properties are missing
\* (materializing it throws), whether it is kept out of the canvas
\* (properties.hideInCanvas, properties.timelineOnly), and its fabricObject
SE(id, type, row, width, scaleX, natural, dom, bad) ==
    [id |-> id, type |-> type, row |-> row, x |-> 3, width |-> width, scaleX |-> scaleX,
     natural |-> natural, dom |-> dom, bad |-> bad, hidden |-> FALSE, obj |-> NoObj]

InitScenes ==
    { <<SE(1, "image", 0, 4, 1, 2, TRUE, FALSE)>>,
      <<SE(1, "image", 0, 2, 2, 2, TRUE, FALSE), SE(2, "audio", 1, 2, 1, 1, TRUE, FALSE)>>,
      <<SE(1, "imageUrl", 0, 4, 2, 1, TRUE, FALSE), SE(2, "text", 1, 2, 1, 1, TRUE, FALSE)>>,
      <<SE(1, "text", 0, 0, 1, 1, TRUE, FALSE), SE(2, "video", 0, 4, 1, 1, TRUE, FALSE),
        SE(3, "video", 1, 2, 2, 1, TRUE, FALSE), SE(4, "image", 0, 2, 1, 2, TRUE, FALSE)>>,
      <<SE(1, "video", 1, 4, 1, 1, TRUE, TRUE), SE(2, "image", 0, 4, 1, 2, TRUE, FALSE)>>,
      <<SE(1, "imageUrl", 1, 4, 2, 1, TRUE, FALSE), SE(2, "video", 0, 4, 1, 1, TRUE, TRUE)>>,
      <<SE(1, "video", 0, 4, 1, 1, FALSE, FALSE), SE(2, "imageUrl", 0, 2, 1, 1, TRUE, FALSE),
        SE(3, "text", 2, 2, 1, 1, TRUE, FALSE)>>,
      <<SE(1, "imageUrl", 0, 2, 1, 1, TRUE, FALSE), SE(2, "imageUrl", 1, 4, 1, 1, TRUE, FALSE)>> }

\* the comparator with the rows in ascending order
compareElements_ascending(a, b) ==
    IF a.type = "text" /\ b.type # "text" THEN 1
    ELSE IF b.type = "text" /\ a.type # "text" THEN -1
    ELSE a.row - b.row

\* the comparator of sortedElements (lines 39-43)
compareElements(a, b) ==
    IF a.type = "text" /\ b.type # "text" THEN 1
    ELSE IF b.type = "text" /\ a.type # "text" THEN -1
    ELSE b.row - a.row

\* [...store.editorElements].sort(compare): Array.prototype.sort is stable
RECURSIVE sortElements(_)
sortElements(s) ==
    IF Len(s) <= 1 THEN s
    ELSE LET h == Head(s)
             rest == sortElements(Tail(s))
         IN  SelectSeq(rest, LAMBDA e : compareElements(h, e) > 0) \o <<h>>
                 \o SelectSeq(rest, LAMBDA e : compareElements(h, e) <= 0)

\* canvas.moveTo(object, index): taken out, then spliced in at index
moveTo(objects, node, index) ==
    LET rest == SelectSeq(objects, LAMBDA o : o # node)
        k == Min(index, Len(rest))
    IN  SubSeq(rest, 1, k) \o <<node>> \o SubSeq(rest, k + 1, Len(rest))

\* object.bringToFront()
bringToFront(objects, node) == SelectSeq(objects, LAMBDA o : o # node) \o <<node>>

\* element.fabricObject = node, for the element with that id if it is in the list
setFabricObject(elements, id, node) ==
    [i \in 1..Len(elements) |->
        IF elements[i].id = id THEN [elements[i] EXCEPT !.obj = node] ELSE elements[i]]

\* element.fabricObject = node; store.canvas.add(node)
addToCanvas(acc, element, node) ==
    [acc EXCEPT !.els = setFabricObject(acc.els, element.id, node),
                !.canvas = Append(acc.canvas, node),
                !.done = acc.done \cup {element.id}]

\* the source handle is absent and the turn ends with a throw
skipElement_throws(acc, element) == [acc EXCEPT !.threw = element.id]

\* continue (lines 70-78 and 141): the turn ends, nothing is added
skipElement(acc, element) == acc

\* the switch case ended with a break and added nothing
breakOnly(acc, element) == [acc EXCEPT !.done = acc.done \cup {element.id}]

\* the step after the switch (lines 457-463): if the element has a
\* fabricObject, the object gets one more 'selected' handler and is moved to
\* the paint index
selectAndPlace(acc, id, index) ==
    LET k == CHOOSE i \in 1..Len(acc.els) : acc.els[i].id = id
        old == acc.els[k].obj
        node == [old EXCEPT !.selected = old.selected + 1]
    IN  IF old = NoObj THEN acc
        ELSE [acc EXCEPT !.els = setFabricObject(acc.els, id, node),
                         !.canvas = moveTo(SelectSeq(acc.canvas, LAMBDA o : o # old), node, index)]

\* one turn of the element loop (lines 63-464); index is the paint index
materializeElement(acc, element, index, passNo) ==
    IF element.bad THEN [acc EXCEPT !.threw = element.id]
    ELSE IF element.type = "video"
    THEN IF ~element.dom THEN skipElement(acc, element)
         ELSE selectAndPlace(
                  addToCanvas(acc, element,
                              [name |-> element.id, made |-> passNo, left |-> element.x,
                               width |-> element.width, scaleX |-> element.scaleX,
                               selected |-> 0]),
                  element.id, index)
    ELSE IF element.type \in {"image", "imageUrl"}
    THEN IF element.hidden THEN selectAndPlace(breakOnly(acc, element), element.id, index)
         ELSE IF element.obj # NoObj
         THEN selectAndPlace(
                  addToCanvas(acc, element,
                              [element.obj EXCEPT
                                  !.left = element.x,
                                  !.scaleX = element.scaleX,
                                  !.width = IF element.obj.width # 0 THEN element.obj.width
                                            ELSE element.width]),
                  element.id, index)
         ELSE IF element.type = "image"
         THEN IF ~element.dom THEN skipElement(acc, element)
              ELSE selectAndPlace(
                       addToCanvas(acc, element,
                                   [name |-> element.id, made |-> passNo, left |-> element.x,
                                    width |-> element.natural,
                                    scaleX |-> (element.width \div element.natural) * element.scaleX,
                                    selected |-> 0]),
                       element.id, index)
         ELSE [acc EXCEPT !.loads = acc.loads \cup {[pass |-> passNo, index |-> index, el |-> element]},
                          !.done = acc.done \cup {element.id}]
    ELSE IF element.type = "text"
    THEN IF element.hidden THEN selectAndPlace(breakOnly(acc, element), element.id, index)
         ELSE LET node == [name |-> element.id, made |-> passNo, left |-> element.x,
                           width |-> IF element.width # 0 THEN element.width ELSE 900,
                           scaleX |-> element.scaleX, selected |-> 0]
                  added == addToCanvas(acc, element, node)
                  front == [added EXCEPT
                               !.canvas = bringToFront(moveTo(added.canvas, node, index), node)]
              IN  selectAndPlace(front, element.id, index)
    ELSE IF element.type = "audio"
    THEN breakOnly(acc, element)
    ELSE acc

\* the element loop: a throw leaves the loop
RECURSIVE processElements(_, _, _, _)
processElements(acc, sorted, i, passNo) ==
    IF i > Len(sorted) \/ acc.threw # 0 THEN acc
    ELSE processElements(materializeElement(acc, sorted[i], i - 1, passNo), sorted, i + 1, passNo)

\* what the scene shows: the nodes without their identity
sceneView(objects) ==
    [i \in 1..Len(objects) |->
        [name |-> objects[i].name, left |-> objects[i].left,
         width |-> objects[i].width, scaleX |-> objects[i].scaleX]]

paintKey(elements) ==
    [i \in 1..Len(elements) |-> [id |-> elements[i].id, type |-> elements[i].type, row |-> elements[i].row]]

\* the steps after the await (lines 471-489) and the finally
finalize(st) ==
    [st EXCEPT !.flag = FALSE,
               !.pass.waiting = {},
               !.log.finalized = TRUE,
               !.hist = [count |-> Min(2, st.hist.count + 1),
                         last |-> sceneView(st.canvas),
                         prev |-> st.hist.last]]

\* a pass, from the guard to the await or to the end (lines 12-495)
runPass(st) ==
    LET passNo == st.pass.started + 1
        sorted == sortElements(st.els)
        acc == processElements([els |-> st.els, canvas |-> <<>>, loads |-> {}, done |-> {}, threw |-> 0],
                               sorted, 1, passNo)
        ran == [st EXCEPT !.flag = TRUE,
                          \* canvas.off of both events (lines 16-17), canvas.on (line 49)
                          !.handlers = Append(SelectSeq(st.handlers,
                                                        LAMBDA h : h \notin {"object:modified", "object:added"}),
                                              "object:modified"),
                          !.els = acc.els,
                          !.canvas = acc.canvas,
                          !.loads = st.loads \cup acc.loads,
                          !.pass = [started |-> passNo, waiting |-> acc.loads],
                          !.log = [op |-> "refresh", pass |-> passNo, ran |-> TRUE, threw |-> acc.threw,
                                   done |-> acc.done, input |-> paintKey(st.els),
                                   order |-> paintKey(sorted), finalized |-> FALSE,
                                   failed |-> FALSE]]
    IN  IF acc.threw # 0
        THEN [ran EXCEPT !.flag = FALSE, !.pass.waiting = {}, !.hist.count = 0]
        ELSE IF acc.loads # {} THEN ran
        ELSE finalize(ran)

\* an invocation that starts a pass whatever the flag says
refreshElementsUtil_noGuard(st) ==
    IF ~st.hasCanvas THEN [st EXCEPT !.log = [NoRlog EXCEPT !.op = "refresh"]]
    ELSE runPass(st)

refreshElementsUtil(st) ==
    IF ~st.hasCanvas THEN [st EXCEPT !.log = [NoRlog EXCEPT !.op = "refresh"]]
    ELSE IF st.flag THEN [st EXCEPT !.log = [NoRlog EXCEPT !.op = "refresh"]]
    ELSE runPass(st)

\* the callback reaches resolve() only for a load without error
resolves_onSuccessOnly(ok) == ok

\* the callback reaches resolve() whatever the load reports (lines 188-216)
resolves(ok) == TRUE

\* the pass goes on as soon as one of its loads has ended
loadCallback_firstLoad(st, load, ok) ==
    LET element == load.el
        node == [name |-> element.id, made |-> load.pass, left |-> element.x,
                 width |-> element.width \div element.scaleX, scaleX |-> element.scaleX,
                 selected |-> 0]
        added == [st EXCEPT !.els = setFabricObject(st.els, element.id, node),
                            !.canvas = moveTo(Append(st.canvas, node), node, load.index),
                            !.loads = st.loads \ {load},
                            !.log = [NoRlog EXCEPT !.op = "loadComplete", !.pass = load.pass,
                                                   !.failed = ~ok]]
    IN  IF load \in st.pass.waiting
        THEN finalize(added)
        ELSE added

\* the callback of fabric.Image.fromURL (lines 188-216), then the pass it lets go on
loadCallback(st, load, ok) ==
    LET element == load.el
        node == [name |-> element.id, made |-> load.pass, left |-> element.x,
                 width |-> element.width \div element.scaleX, scaleX |-> element.scaleX,
                 selected |-> 0]
        added == [st EXCEPT !.els = setFabricObject(st.els, element.id, node),
                            !.canvas = moveTo(Append(st.canvas, node), node, load.index),
                            !.loads = st.loads \ {load},
                            !.log = [NoRlog EXCEPT !.op = "loadComplete", !.pass = load.pass,
                                                   !.failed = ~ok]]
        waiting == IF resolves(ok) THEN st.pass.waiting \ {load} ELSE st.pass.waiting
    IN  IF load \in st.pass.waiting /\ waiting = {}
        THEN finalize(added)
        ELSE [added EXCEPT !.pass.waiting = waiting]

RefreshState ==
    [els |-> sceneElements, hasCanvas |-> hasCanvas, canvas |-> canvas, handlers |-> canvasHandlers,
     flag |-> isRefreshingElements, loads |-> imageLoads, pass |-> pass, log |-> rlog,
     hist |-> sceneHistory]

ApplyRefresh(st) ==
    /\ sceneElements' = st.els
    /\ hasCanvas' = st.hasCanvas
    /\ canvas' = st.canvas
    /\ canvasHandlers' = st.handlers
    /\ isRefreshingElements' = st.flag
    /\ imageLoads' = st.loads
    /\ pass' = st.pass
    /\ rlog' = st.log
    /\ sceneHistory' = st.hist
    /\ UNCHANGED subtitle
    /\ UNCHANGED dragVars

InitRefresh ==
    /\ editorElements = <<>>
    /\ maxRows = NumRows
    /\ selectedElements = {}
    /\ ghostState = EmptyGhostState
    /\ dnd = NoGesture
    /\ committed = FALSE
    /\ last = NoLast
    /\ cmp = NoCmp
    /\ animations = <<>>
    /\ sceneElements \in InitScenes
    /\ hasCanvas \in BOOLEAN
    /\ canvas = <<>>
    /\ canvasHandlers = <<>>
    /\ isRefreshingElements = FALSE
    /\ imageLoads = {}
    /\ pass = NoPass
    /\ rlog = NoRlog
    /\ sceneHistory = NoHistory
    /\ subtitle = NoSubtitle

\* the canvas gets created
AttachCanvas ==
    /\ ~hasCanvas
    /\ ApplyRefresh([RefreshState EXCEPT !.hasCanvas = TRUE, !.log = [NoRlog EXCEPT !.op = "attachCanvas"]])

\* a trigger of the scene pass
Refresh ==
    /\ pass.started < MaxPasses
    /\ ApplyRefresh(refreshElementsUtil(RefreshState))

\* an image load ends, with the image or with an error
LoadComplete(load, ok) ==
    /\ load \in imageLoads
    /\ ApplyRefresh(loadCallback(RefreshState, load, ok))

\* an element is deleted from the element list
RemoveElement(id) ==
    /\ \E i \in 1..Len(sceneElements) : sceneElements[i].id = id
    /\ ApplyRefresh([RefreshState EXCEPT
            !.els = SelectSeq(sceneElements, LAMBDA e : e.id # id),
            !.hist.count = 0,
            !.log = [NoRlog EXCEPT !.op = "removeElement"]])

\* properties.hideInCanvas or properties.timelineOnly of an element gets set
HideElement(id) ==
    /\ \E i \in 1..Len(sceneElements) :
          /\ sceneElements[i].id = id /\ ~sceneElements[i].hidden
          /\ sceneElements[i].type \in {"image", "imageUrl", "text"}
    /\ ApplyRefresh([RefreshState EXCEPT
            !.els = [i \in 1..Len(sceneElements) |->
                        IF sceneElements[i].id = id
                        THEN [sceneElements[i] EXCEPT !.hidden = TRUE] ELSE sceneElements[i]],
            !.hist.count = 0,
            !.log = [NoRlog EXCEPT !.op = "hideElement"]])

\* the <video> or <img> element of an element leaves the document
DetachSource(id) ==
    /\ \E i \in 1..Len(sceneElements) :
          /\ sceneElements[i].id = id /\ sceneElements[i].dom
          /\ sceneElements[i].type \in {"video", "image"}
    /\ ApplyRefresh([RefreshState EXCEPT
            !.els = [i \in 1..Len(sceneElements) |->
                        IF sceneElements[i].id = id
                        THEN [sceneElements[i] EXCEPT !.dom = FALSE] ELSE sceneElements[i]],
            !.hist.count = 0,
            !.log = [NoRlog EXCEPT !.op = "detachSource"]])

AnyLoadComplete == \E load \in imageLoads, ok \in BOOLEAN : LoadComplete(load, ok)

NextRefresh ==
    \/ AttachCanvas
    \/ Refresh
    \/ AnyLoadComplete
    \/ \E id \in {sceneElements[i].id : i \in 1..Len(sceneElements)} : RemoveElement(id)
    \/ \E id \in {sceneElements[i].id : i \in 1..Len(sceneElements)} : HideElement(id)
    \/ \E id \in {sceneElements[i].id : i \in 1..Len(sceneElements)} : DetachSource(id)

SpecRefresh == InitRefresh /\ [][NextRefresh]_vars

\* every load ends at some time, one way or the other
SpecRefreshLive == SpecRefresh /\ WF_vars(AnyLoadComplete)

\* ------------------------------------------------------------------------
\* The handlers of a text object (refreshElements.js, lines 337-435)
\* ------------------------------------------------------------------------
MaxTextLen == 3

\* a text is a sequence of characters
Texts == {<<>>} \cup UNION {[1..n -> {"a", "b", " "}] : n \in 1..MaxTextLen}

\* String.prototype.trim
RECURSIVE trimStart(_)
trimStart(t) == IF t # <<>> /\ Head(t) = " " THEN trimStart(Tail(t)) ELSE t

RECURSIVE trimEnd(_)
trimEnd(t) == IF t # <<>> /\ t[Len(t)] = " " THEN trimEnd(SubSeq(t, 1, Len(t) - 1)) ELSE t

trim(t) == trimEnd(trimStart(t))

\* String.prototype.split(/\s+/): the pieces between the runs of whitespace;
\* a text without whitespace, the empty text too, is one piece
RECURSIVE splitFrom(_, _, _, _)
splitFrom(t, piece, pieces, inRun) ==
    IF t = <<>> THEN Append(pieces, piece)
    ELSE IF Head(t) = " "
    THEN IF inRun THEN splitFrom(Tail(t), piece, pieces, TRUE)
         ELSE splitFrom(Tail(t), <<>>, Append(pieces, piece), TRUE)
    ELSE splitFrom(Tail(t), Append(piece, Head(t)), pieces, FALSE)

\* text.trim().split(/\s+/) (lines 396-397)
splitWords(t) == splitFrom(trim(t), <<>>, <<>>, FALSE)

\* words.slice(0, n).reduce((sum, w) => sum + w.length, 0)
RECURSIVE sumLengths(_, _)
sumLengths(ws, n) == IF n = 0 THEN 0 ELSE sumLengths(ws, n - 1) + Len(ws[n])

NoTiming == [word |-> <<>>, start |-> Null, end |-> Null]

\* wordTimings.get(word) after the forEach of lines 401-403: the entry set
\* last for the key oldWords[index]
wordTimingOf(oldWords, words, w) ==
    LET hits == {i \in 1..Len(words) : i <= Len(oldWords) /\ oldWords[i] = w}
    IN  IF hits = {} THEN NoTiming
        ELSE words[CHOOSE i \in hits : \A j \in hits : j <= i]

\* the handler of 'changed' (lines 389-435)
onChanged(el) ==
    IF el.subType = "subtitles" /\ el.isEditing
    THEN LET newText == el.objText
             segmentDuration == el.end - el.start
             oldWords == splitWords(el.text)
             newWords == splitWords(newText)
             totalChars == sumLengths(newWords, Len(newWords))
             updatedWords ==
                 [i \in 1..Len(newWords) |->
                     LET existingTiming == wordTimingOf(oldWords, el.words, newWords[i])
                     IN  IF existingTiming # NoTiming
                         THEN [existingTiming EXCEPT !.word = newWords[i]]
                         ELSE LET chars == IF totalChars # 0 THEN totalChars ELSE 1
                                  \* wordStart as a fraction over chars
                                  wordStart == el.start * chars
                                                 + segmentDuration * sumLengths(newWords, i - 1)
                              IN  [word |-> newWords[i],
                                   \* Math.round of a fraction that is not negative
                                   start |-> (2 * wordStart + chars) \div (2 * chars),
                                   end |-> el.end]]
         IN  [el EXCEPT !.text = newText, !.words = updatedWords]
    ELSE el

\* text elements before an edit: without a word list, or with one entry for
\* each word of the text, each with its own slot of time and its word object
InitSubtitles ==
    LET texts == { <<"a", " ", "b">>, <<"a", " ", "a">>, <<"a", "b">>, <<"b">> }
        timedWords(t) ==
            [i \in 1..Len(splitWords(t)) |->
                [word |-> splitWords(t)[i], start |-> (i - 1) * 100, end |-> i * 100]]
    IN  { [subType |-> st, start |-> 0, end |-> 1000, text |-> t,
           words |-> IF timed THEN timedWords(t) ELSE <<>>,
           wordObjects |-> IF timed THEN [i \in 1..Len(timedWords(t)) |-> i] ELSE <<>>,
           objText |-> t, isEditing |-> FALSE, op |-> "init"] :
             st \in {"subtitles", "caption"}, t \in texts, timed \in BOOLEAN }

InitEdit ==
    /\ editorElements = <<>>
    /\ maxRows = NumRows
    /\ selectedElements = {}
    /\ ghostState = EmptyGhostState
    /\ dnd = NoGesture
    /\ committed = FALSE
    /\ last = NoLast
    /\ cmp = NoCmp
    /\ animations = <<>>
    /\ sceneElements = <<>>
    /\ hasCanvas = FALSE
    /\ canvas = <<>>
    /\ canvasHandlers = <<>>
    /\ isRefreshingElements = FALSE
    /\ imageLoads = {}
    /\ pass = NoPass
    /\ rlog = NoRlog
    /\ sceneHistory = NoHistory
    /\ subtitle \in InitSubtitles

\* the text object enters editing and fires 'editing:entered' (lines
\* 337-360): the word objects of a subtitle are dropped
EditingEntered ==
    /\ ~subtitle.isEditing
    /\ subtitle' = [subtitle EXCEPT !.isEditing = TRUE,
                                    !.wordObjects = IF subtitle.subType = "subtitles" THEN <<>> ELSE @,
                                    !.op = "editing:entered"]
    /\ UNCHANGED dragVars
    /\ UNCHANGED <<sceneElements, hasCanvas, canvas, canvasHandlers, isRefreshingElements,
                   imageLoads, pass, rlog, sceneHistory>>

\* the text of the text object changes and it fires 'changed'
TextChanged(newText) ==
    /\ subtitle' = [onChanged([subtitle EXCEPT !.objText = newText]) EXCEPT !.op = "changed"]
    /\ UNCHANGED dragVars
    /\ UNCHANGED <<sceneElements, hasCanvas, canvas, canvasHandlers, isRefreshingElements,
                   imageLoads, pass, rlog, sceneHistory>>

NextEdit ==
    \/ EditingEntered
    \/ \E newText \in Texts : TextChanged(newText)

SpecEdit == InitEdit /\ [][NextEdit]_vars

\* ------------------------------------------------------------------------
\* Properties
\* ------------------------------------------------------------------------

\* C1: for every pair of declared kinds the function answers true exactly when
\* both kinds are text or neither is (text only with text, animation with
\* anything but text, the media kinds with one another).
C1_CompatTable ==
    (cmp.called /\ cmp.type1 \in Kinds /\ cmp.type2 \in Kinds) =>
        (cmp.result <=> ((cmp.type1 = "text") <=> (cmp.type2 = "text")))

C1_Witness ==
    cmp.called /\ cmp.type1 = "animation" /\ cmp.type2 = "text" /\ cmp.result = FALSE

\* C2: the function is symmetric on the declared kinds, answers a boolean for
\* every pair, and a call leaves the editor state as it was.
C2_Symmetric ==
    /\ (cmp.called /\ cmp.calledSwapped /\ cmp.type1 \in Kinds /\ cmp.type2 \in Kinds) =>
            cmp.result = cmp.swapped
    /\ cmp.result \in BOOLEAN /\ cmp.swapped \in BOOLEAN
    /\ (cmp.called \/ cmp.calledSwapped) =>
            /\ editorElements = <<>>
            /\ ghostState = EmptyGhostState
            /\ selectedElements = {}

C2_Witness ==
    /\ cmp.called /\ cmp.calledSwapped
    /\ cmp.type1 = "animation" /\ cmp.type2 = "video"
    /\ cmp.result = TRUE /\ cmp.swapped = TRUE

\* ------------------------------------------------------------------------
\* Vocabulary of the drag properties
\* ------------------------------------------------------------------------
GhostFlags == {"isDragging", "isMultiDragging", "isGalleryDragging", "isFileDragging", "isDraggingRow"}
CommitCalls == {"finishGhostDrag", "finishAnimationGhostDrag", "finishMultiGhostDrag"}
InsertCalls == {"addImageLocal", "handleVideoUploadFromUrl"}

\* one kind is text and the other is not
Incompatible(type1, type2) == (type1 = "text") # (type2 = "text")

\* the starts, at 0 or right behind an element of the row, where a clip of
\* width minGap fits before the next element and before the end of the timeline
GapStarts(elements, rowIndex, minGap) ==
    LET row == overlays(elements, rowIndex)
        starts == {0} \cup {row[i].end : i \in 1..Len(row)}
    IN  {s \in starts :
            /\ s + minGap <= maxTime
            /\ \A i \in 1..Len(row) : row[i].end <= s \/ s + minGap <= row[i].start}

Least(S) == CHOOSE s \in S : \A u \in S : s <= u

\* the step is the release of a gallery drag over a row, with no ghost shown
GalleryFallbackDrop ==
    /\ dnd.kind \in {"gallery-image", "gallery-video"}
    /\ ~dnd.didDrop /\ dnd'.didDrop
    /\ ~(ghostState.isGalleryDragging /\ ghostState.galleryGhostElement # NullGhost)
    /\ Len(editorElements') = Len(editorElements) + 1

\* the step is the release of an image file over a row that takes it, with no ghost shown
FileFallbackDrop ==
    /\ dnd.kind = "file" /\ dnd.fileType = "image/"
    /\ ~dnd.didDrop /\ dnd'.didDrop
    /\ ~(ghostState.isFileDragging /\ ghostState.fileGhostElement # NullGhost)
    /\ rowTypeOf(editorElements, dnd.row) = Undefined
          \/ ~Incompatible(rowTypeOf(editorElements, dnd.row), "imageUrl")
    /\ Len(editorElements') = Len(editorElements) + 1

\* ------------------------------------------------------------------------
\* Properties of the drag machine
\* ------------------------------------------------------------------------

\* C3: whenever a single-move drop commits, whatever the pointer position, the
\* start position handed to the commit lies between 0 and maxTime minus the
\* duration of the dragged element.
C3_CommitStartInRange ==
    (last.op = "drop" /\ last.kind = "timeline-item" /\ last.ghost = "singleMove") =>
        \A i \in 1..Len(last.calls) :
            last.calls[i].name \in {"finishGhostDrag", "finishAnimationGhostDrag"} =>
                /\ 0 <= last.calls[i].pos
                /\ last.calls[i].pos <= maxTime - last.calls[i].dur

\* C4: when a single-move drag is released over a non-empty row whose kind is
\* incompatible with the dragged element, no commit operation is invoked and
\* the element list stays as it was before the release.
C4_IncompatibleReleaseCommitsNothing ==
    [][ ( /\ dnd.kind = "timeline-item" /\ ~dnd.didDrop
          /\ ghostState.isDragging
          /\ dnd.row # Null
          /\ rowTypeOf(editorElements, dnd.row) # Undefined
          /\ Incompatible(rowTypeOf(editorElements, dnd.row), ghostState.draggedElement.type)
          /\ (dnd'.didDrop \/ dnd'.kind = "none") )
        => ( /\ editorElements' = editorElements
             /\ \A i \in 1..Len(last'.calls) : last'.calls[i].name \notin CommitCalls ) ]_vars

C4_Witness ==
    /\ last.op = "cancelDrag" /\ last.kind = "timeline-item" /\ last.ghost = "singleMove"
    /\ last.row # Null
    /\ ~committed
    /\ rowTypeOf(editorElements, last.row) # Undefined
    /\ Incompatible(rowTypeOf(editorElements, last.row), find(editorElements, last.id).type)

C8_FallbackEarliestGap ==
    [][ ( /\ GalleryFallbackDrop
          /\ rowTypeOf(editorElements, dnd.row) # Undefined
          /\ GapStarts(editorElements, dnd.row,
                       IF dnd.kind = "gallery-video" THEN VideoGap ELSE ImageGap) # {} )
        => \E i \in 1..Len(last'.calls) :
              /\ last'.calls[i].name \in InsertCalls
              /\ last'.calls[i].row = dnd.row
              /\ last'.calls[i].pos =
                    Least(GapStarts(editorElements, dnd.row,
                                    IF dnd.kind = "gallery-video" THEN VideoGap ELSE ImageGap)) ]_vars

\* C9: a fallback insert on a non-empty row without a wide enough gap calls
\* shiftRowsDown(targetRow + 1) exactly once, before the insert, and the new
\* element lands on row targetRow + 1 at start 0; when a gap exists nothing is
\* shifted and the new element lands on the target row.
C9_FallbackShift ==
    [][ (GalleryFallbackDrop \/ FileFallbackDrop) =>
        LET r == dnd.row
            minGap == IF dnd.kind = "gallery-video" THEN VideoGap ELSE ImageGap
            n == Len(editorElements)
            new == editorElements'[n + 1]
            calls == last'.calls
            shifts == {i \in 1..Len(calls) : calls[i].name = "shiftRowsDown"}
            inserts == {i \in 1..Len(calls) : calls[i].name \in InsertCalls}
        IN  IF rowTypeOf(editorElements, r) # Undefined /\ GapStarts(editorElements, r, minGap) = {}
            THEN /\ Cardinality(shifts) = 1 /\ Cardinality(inserts) = 1
                 /\ \A i \in shifts : calls[i].row = r + 1 /\ \A j \in inserts : i < j
                 /\ new.row = r + 1 /\ new.start = 0
                 /\ \A i \in 1..n :
                        editorElements'[i] =
                            [editorElements[i] EXCEPT
                                !.row = IF editorElements[i].row >= r + 1 THEN @ + 1 ELSE @]
            ELSE /\ shifts = {} /\ Cardinality(inserts) = 1
                 /\ new.row = r
                 /\ SubSeq(editorElements', 1, n) = editorElements ]_vars

C9_Witness ==
    /\ last.op = "drop" /\ last.kind = "gallery-image" /\ last.ghost = "none"
    /\ Called("shiftRowsDown") /\ Called("addImageLocal")
    /\ CallOf("shiftRowsDown").row = last.row + 1
    /\ editorElements[Len(editorElements)].row = last.row + 1
    /\ editorElements[Len(editorElements)].start = 0

\* C10: a gallery image released with its ghost over an empty row, at a pointer
\* time t between 0 and maxTime - 5000, is accepted and adds exactly one image
\* element, on that row, spanning t to t + 5000.
C10_GalleryImageOnEmptyRow ==
    [][ ( /\ dnd.kind = "gallery-image" /\ ~dnd.didDrop /\ dnd'.didDrop
          /\ ghostState.isGalleryDragging
          /\ ghostState.galleryGhostElement # NullGhost
          /\ ghostState.galleryGhostElement.row = dnd.row
          /\ rowTypeOf(editorElements, dnd.row) = Undefined
          /\ ((dnd.x - RowLeft) * maxTime) \div RowWidth <= maxTime - 5000 )
        => LET t == ((dnd.x - RowLeft) * maxTime) \div RowWidth
               n == Len(editorElements)
           IN  /\ Len(editorElements') = n + 1
               /\ SubSeq(editorElements', 1, n) = editorElements
               /\ editorElements'[n + 1].type = "imageUrl"
               /\ editorElements'[n + 1].row = dnd.row
               /\ editorElements'[n + 1].start = t
               /\ editorElements'[n + 1].end = t + 5000 ]_vars

C10_Witness ==
    /\ last.op = "drop" /\ last.kind = "gallery-image" /\ last.ghost = "galleryInsert"
    /\ Called("finishGalleryGhostDrag") /\ Called("addImageLocal")
    /\ Len(overlays(editorElements, last.row)) = 1
    /\ overlays(editorElements, last.row)[1].type = "imageUrl"
    /\ overlays(editorElements, last.row)[1].start = CallOf("finishGalleryGhostDrag").pos
    /\ overlays(editorElements, last.row)[1].start > 0

C12_ReentrantCallDropped ==
    /\ [](pass.waiting # {} =>
            (isRefreshingElements /\ \A load \in pass.waiting : load.pass = pass.started))
    /\ [][ /\ (rlog'.op = "refresh" /\ isRefreshingElements) =>
                 ( /\ canvas' = canvas /\ canvasHandlers' = canvasHandlers
                   /\ sceneElements' = sceneElements /\ imageLoads' = imageLoads
                   /\ pass' = pass /\ sceneHistory' = sceneHistory
                   /\ isRefreshingElements' )
           /\ (pass'.started # pass.started) =>
                 (rlog'.op = "refresh" /\ ~isRefreshingElements) ]_vars

C12_Witness ==
    /\ rlog.op = "refresh" /\ ~rlog.ran
    /\ hasCanvas /\ isRefreshingElements
    /\ pass.waiting # {}
    /\ canvas # <<>>

C14_ThrowIsolated ==
    (rlog.op = "refresh" /\ rlog.ran /\ rlog.threw # 0) =>
        /\ \A i \in 1..Len(sceneElements) :
              LET e == sceneElements[i]
              IN  (e.dom /\ ~e.bad /\ e.id # rlog.threw) => e.id \in rlog.done
        /\ rlog.finalized \/ pass.waiting # {}

\* C15: two completed passes in a row, with no change of the element list
\* between them, leave the same scene: as many nodes, and the same position,
\* width and scale for each element's node.
C15_PassIdempotent ==
    sceneHistory.count = 2 =>
        /\ Len(sceneHistory.last) = Len(sceneHistory.prev)
        /\ {sceneHistory.last[i] : i \in 1..Len(sceneHistory.last)}
             = {sceneHistory.prev[i] : i \in 1..Len(sceneHistory.prev)}

C17_StaleCallbackInert ==
    [][ \A load \in imageLoads \ imageLoads' :
            (load.pass # pass.started
                \/ \A i \in 1..Len(sceneElements) : sceneElements[i].id # load.el.id)
            => (canvas' = canvas /\ sceneElements' = sceneElements) ]_vars

\* the handlers that end a gesture over a row: the drop of the drop target,
\* the file drop and the release of the row handle
DropOps == {"drop", "fileDrop", "rowMouseUp"}

\* the calls of a handler that change the element list or the animation list
MutatorCalls ==
    {"addImageLocal", "handleVideoUploadFromUrl", "addAnimation", "animations.push",
     "editorElements.push", "finishGhostDrag", "finishAnimationGhostDrag",
     "finishMultiGhostDrag", "finishRowDrag", "shiftRowsDown"}

\* C18: a drop handler that changed the element list or the animation list
\* called the save hook, after the last of its mutating calls.
C18_MutationThenSaveHook ==
    [][ (last'.op \in DropOps
            /\ (editorElements' # editorElements \/ animations' # animations))
        => \E h \in 1..Len(last'.calls) :
              /\ last'.calls[h].name = "dispatchSaveTimelineState"
              /\ \A i \in 1..Len(last'.calls) :
                    last'.calls[i].name \in MutatorCalls => i < h ]_vars

\* C19: every animation and every animation element on the timeline has
\* start < end, and after the drop of an animation or a GL transition whose
\* duration is zero or missing the animation list and the element list are
\* as they were.
C19_DropRangesValid ==
    /\ \A i \in 1..Len(animations) :
          /\ animations[i].end # NaN
          /\ animations[i].start < animations[i].end
    /\ \A i \in 1..Len(editorElements) :
          editorElements[i].type = "animation" =>
             /\ editorElements[i].end # NaN
             /\ editorElements[i].start < editorElements[i].end
    /\ (last.op = "drop"
          /\ \/ last.kind = "animation-drop" /\ dnd.duration = 0 /\ dnd.propDuration = 0
             \/ last.kind = "gl-transition-drop" /\ dnd.duration \in {0, Null})
        => \A i \in 1..Len(last.calls) :
              last.calls[i].name \notin {"addAnimation", "animations.push", "editorElements.push"}

\* the kind of the element a gesture places on the timeline
placedKind(item, elements) ==
    IF item.kind = "gallery-image" THEN "imageUrl"
    ELSE IF item.kind \in {"gallery-video", "animation-effect"} THEN "video"
    ELSE IF item.kind \in {"animation-drop", "gl-transition-drop"} THEN "animation"
    ELSE IF item.kind = "file" THEN fileElementType(item.seenType)
    ELSE find(elements, item.id).type

\* the row is empty, or its type is compatible with the kind placed
rowAccepts(item, elements, rowIndex) ==
    \/ Len(overlays(elements, rowIndex)) = 0
    \/ areTypesCompatible(rowTypeOf(elements, rowIndex), placedKind(item, elements))

GhostUpdateCalls ==
    {"updateGalleryGhost", "updateGhostElementWithPush", "updateAnimationGhostElementWithPush",
     "updateFileGhost"}

\* C20: every acceptance decision for a row accepts exactly when the row is
\* empty or areTypesCompatible(row type, kind of the element placed) holds:
\* the incompatibility flag a hover or a file drag-over passes to the ghost,
\* canDrop for every row, the check of the single-move drop, and the check
\* of the file drag-enter that starts the file ghost.
C20_DecisionsFollowCompatibility ==
    [][ /\ last'.op \in {"hover", "fileDragOver"} =>
              \A i \in 1..Len(last'.calls) :
                  last'.calls[i].name \in GhostUpdateCalls =>
                      last'.calls[i].flag = ~rowAccepts(dnd', editorElements, last'.row)
        /\ (dnd'.kind \in DndKinds /\ (dnd'.kind = "timeline-item" => find(editorElements', dnd'.id).id # 0)) =>
              \A r \in 0..(NumRows - 1) :
                  canDrop(dnd', editorElements', r) = rowAccepts(dnd', editorElements', r)
        /\ (last'.op = "drop" /\ dnd.kind = "timeline-item"
               /\ ghostState.isDragging /\ ~ghostState.isMultiDragging) =>
              ((\E i \in 1..Len(last'.calls) :
                    last'.calls[i].name \in {"finishGhostDrag", "finishAnimationGhostDrag"})
                 = rowAccepts(dnd, editorElements, last'.row))
        /\ (last'.op = "fileDragEnter" /\ ~isDraggingTimelineElement
               /\ ~ghostState.isFileDragging /\ dnd'.seenType \in FileTypes) =>
              ((\E i \in 1..Len(last'.calls) : last'.calls[i].name = "startFileGhostDrag")
                 = rowAccepts(dnd', editorElements, last'.row)) ]_vars

C20_Witness ==
    /\ last.op = "hover" /\ last.kind = "animation-drop"
    /\ Len(overlays(editorElements, last.row)) > 0
    /\ \E i \in 1..Len(last.calls) :
          last.calls[i].name = "updateGalleryGhost" /\ last.calls[i].flag
    /\ ~canDrop(dnd, editorElements, last.row)

SingleGhostUpdates == {"updateGhostElementWithPush", "updateAnimationGhostElementWithPush"}

C22_AnchorsBoundOnce ==
    [][ /\ startsIn(last'.calls) \cap dnd.started = {}
        /\ (last'.op = "hover" /\ ghostState.initialClientX # Null) =>
              /\ ghostState'.initialClientX = ghostState.initialClientX
              /\ ghostState'.initialElementStart = ghostState.initialElementStart
              /\ ghostState'.initialElementStarts = ghostState.initialElementStarts ]_vars

\* the candidate row under the pointer lies past the midpoint between the
\* facing edges of the origin row o and the candidate row c
crossedMidpoint(elements, o, c, y) ==
    \/ c > o /\ 2 * y >= rowBottom(elements, o) + rowTop(elements, c)
    \/ c < o /\ 2 * y <= rowBottom(elements, c) + rowTop(elements, o)

\* the target of a row reorder with origin o and the pointer at height y
expectedRowTarget(elements, nRows, o, y) ==
    LET under == {r \in 0..(nRows - 1) : rowTop(elements, r) <= y /\ y < rowBottom(elements, r)}
    IN  IF \E c \in under : c # o /\ crossedMidpoint(elements, o, c, y)
        THEN CHOOSE c \in under : c # o /\ crossedMidpoint(elements, o, c, y)
        ELSE o

\* the row a row-handle handler resolved, read from its store call
resolvedRowTarget(l, o) ==
    IF \E i \in 1..Len(l.calls) :
          l.calls[i].name \in {"updateRowDragOver", "finishRowDrag"} /\ l.calls[i].row # Null
    THEN l.calls[CHOOSE i \in 1..Len(l.calls) :
          l.calls[i].name \in {"updateRowDragOver", "finishRowDrag"} /\ l.calls[i].row # Null].row
    ELSE o

\* C23: in a row reorder the mouse-move preview and the mouse-up resolution
\* both resolve the candidate row under the pointer when the pointer has
\* crossed the midpoint between the facing edges of the origin row and the
\* candidate row, and the origin row otherwise.
C23_RowTargetByFacingMidpoint ==
    [][ last'.op \in {"rowMouseMove", "rowMouseUp"} =>
            resolvedRowTarget(last', dnd.row)
              = expectedRowTarget(editorElements, maxRows, dnd.row, last'.y) ]_vars

\* a preview that resolves a row below the origin, the pointer in its upper half
C23_Witness ==
    /\ last.op = "rowMouseMove"
    /\ Called("updateRowDragOver")
    /\ CallOf("updateRowDragOver").row # Null
    /\ CallOf("updateRowDragOver").row > last.row
    /\ 2 * last.y < rowTop(editorElements, CallOf("updateRowDragOver").row)
                      + rowBottom(editorElements, CallOf("updateRowDragOver").row)

\* C24: the mouse-up of a row drag makes exactly one store call,
\* finishRowDrag(target) if the resolved target differs from the origin row
\* and cancelRowDrag() otherwise; it ends the drag, and updateRowDragOver,
\* finishRowDrag and cancelRowDrag are called only by the handlers of a row
\* drag that has not ended.
C24_RowDragEndsOnce ==
    [][ /\ last'.op = "rowMouseUp" =>
              LET target == expectedRowTarget(editorElements, maxRows, dnd.row, last'.y)
              IN  /\ Len(last'.calls) = 1
                  /\ last'.calls[1].name = IF target # dnd.row THEN "finishRowDrag" ELSE "cancelRowDrag"
                  /\ target # dnd.row => last'.calls[1].row = target
                  /\ dnd'.kind # "rowHandle"
        /\ (\E i \in 1..Len(last'.calls) :
                last'.calls[i].name \in {"updateRowDragOver", "finishRowDrag", "cancelRowDrag"})
              => (dnd.kind = "rowHandle" /\ last'.op \in {"rowMouseMove", "rowMouseUp"}) ]_vars

\* a row drag released over its own row: cancelled
C24_Witness ==
    /\ last.op = "rowMouseUp"
    /\ Called("cancelRowDrag")
    /\ dnd = NoGesture
    /\ last.y >= rowTop(editorElements, last.row) /\ last.y < rowBottom(editorElements, last.row)

\* C25: the duration given to an insert ghost when it is started is 5000 for
\* an image and 10000 for a video or an audio that carries no duration of its
\* own, and the asset's own duration otherwise; a file carries none while it
\* is dragged.
C25_DefaultGhostDuration ==
    \A i \in 1..Len(last.calls) :
        /\ (last.calls[i].name = "startGalleryGhostDrag" /\ last.kind = "gallery-image")
              => last.calls[i].dur = 5000
        /\ (last.calls[i].name = "startGalleryGhostDrag" /\ last.kind = "gallery-video")
              => last.calls[i].dur = IF dnd.duration = 0 THEN 10000 ELSE dnd.duration
        /\ last.calls[i].name = "startFileGhostDrag"
              => last.calls[i].dur = IF dnd.seenType = "image/" THEN 5000 ELSE 10000

InsertKinds == {"gallery-image", "gallery-video", "file"}
InsertStarts == {"startGalleryGhostDrag", "startFileGhostDrag"}

\* C26: a hover or a file drag-enter of a gallery or file insert starts the
\* ghost only over a row that is empty or compatible with the inserted kind,
\* and over such a row it starts the ghost if none was started in the drag.
C26_GhostStartsOnValidRow ==
    [][ (last'.op \in {"hover", "fileDragEnter"} /\ dnd'.kind \in InsertKinds) =>
            /\ (startsIn(last'.calls) \cap InsertStarts # {})
                  => rowAccepts(dnd', editorElements, last'.row)
            /\ (rowAccepts(dnd', editorElements, last'.row)
                  /\ dnd.started \cap InsertStarts = {}
                  /\ dnd'.node = 0
                  /\ (dnd'.kind = "file" => dnd'.seenType \in FileTypes))
                  => startsIn(last'.calls) \cap InsertStarts # {} ]_vars

\* the kind of the element a dropped payload becomes
droppedKind(item, elements) ==
    IF item.kind = "file" THEN fileElementType(item.fileType) ELSE placedKind(item, elements)

\* the row is empty or compatible with the kind of the dropped payload
rowTakes(item, elements, rowIndex) ==
    \/ Len(overlays(elements, rowIndex)) = 0
    \/ areTypesCompatible(rowTypeOf(elements, rowIndex), droppedKind(item, elements))

PayloadKinds == InsertKinds \cup PaletteKinds

\* C27: the drop of a gallery image or video, an effect, an animation, a GL
\* transition or an audio, image or video file on an empty or compatible
\* row, the upload succeeding, inserts something, and no more than one
\* element and one animation.
C27_AcceptedDropInserts ==
    [][ (last'.op \in {"drop", "fileDrop"} /\ dnd.kind \in PayloadKinds
           /\ dnd.node = 0 /\ dnd'.uploadOk
           /\ rowTakes(dnd, editorElements, dnd.row)) =>
            /\ Len(editorElements') + Len(animations') > Len(editorElements) + Len(animations)
            /\ Len(editorElements') <= Len(editorElements) + 1
            /\ Len(animations') <= Len(animations) + 1 ]_vars

\* C28: the drop of a gallery or file insert on a non-empty row whose type
\* is incompatible with the inserted kind leaves the element list as it was
\* and shifts no rows.
C28_IncompatibleDropInsertsNothing ==
    [][ (last'.op \in {"drop", "fileDrop"} /\ dnd.kind \in InsertKinds
           /\ ~rowTakes(dnd, editorElements, dnd.row)) =>
            /\ editorElements' = editorElements
            /\ maxRows' = maxRows
            /\ \A i \in 1..Len(last'.calls) : last'.calls[i].name # "shiftRowsDown" ]_vars

C30_FinalizeAfterLoads ==
    rlog.finalized => \A load \in imageLoads : load.pass # pass.started

\* a pass that issued two loads is finalized by the end of the second
C30_Witness ==
    /\ rlog.op = "loadComplete" /\ rlog.finalized
    /\ rlog.pass = pass.started
    /\ Cardinality({i \in 1..Len(canvas) : canvas[i].made = pass.started}) = 2
    /\ \A i \in 1..Len(sceneElements) : sceneElements[i].type = "imageUrl"

\* C31: a pass that processes an image, imageUrl or video element which
\* already has a fabricObject keeps that object (no new one is made for the
\* element) and leaves its pixel width as it was.
C31_RealizedObjectReused ==
    [][ (rlog'.op = "refresh" /\ rlog'.ran) =>
            \A i \in 1..Len(sceneElements) :
                (/\ sceneElements[i].type \in {"image", "imageUrl", "video"}
                 /\ sceneElements[i].obj # NoObj
                 /\ sceneElements[i].id \in rlog'.done) =>
                    \E j \in 1..Len(sceneElements') :
                        /\ sceneElements'[j].id = sceneElements[i].id
                        /\ sceneElements'[j].obj.made = sceneElements[i].obj.made
                        /\ sceneElements'[j].obj.width = sceneElements[i].obj.width ]_vars

\* a video or image element whose <video> / <img> is not in the document
sourceAbsent(e) == e.type \in {"video", "image"} /\ ~e.dom

\* the scene has a node for the element
hasNode(objects, id) == \E k \in 1..Len(objects) : objects[k].name = id

wordStarts(t) == {i \in 1..Len(t) : t[i] # " " /\ (i = 1 \/ t[i - 1] = " ")}

\* C33: a 'changed' event of a subtitle under edit changes only the text and
\* the word list of the element; the word list has one entry for each word
\* of the new text; an entry whose word is a word of the previous text has
\* the timing of such a word; properties.wordObjects stays as it was.
C33_ChangedRecomputesWords ==
    [][ (subtitle'.op = "changed" /\ subtitle.subType = "subtitles" /\ subtitle.isEditing) =>
            /\ subtitle'.text = subtitle'.objText
            /\ subtitle' = [subtitle EXCEPT !.text = subtitle'.text, !.words = subtitle'.words,
                                            !.objText = subtitle'.objText, !.op = "changed"]
            /\ Len(subtitle'.words) = Cardinality(wordStarts(subtitle'.text))
            /\ \A k \in 1..Len(subtitle'.words) :
                  (\E j \in 1..Len(subtitle.words) : subtitle.words[j].word = subtitle'.words[k].word) =>
                      \E j \in 1..Len(subtitle.words) :
                          /\ subtitle.words[j].word = subtitle'.words[k].word
                          /\ subtitle.words[j].start = subtitle'.words[k].start
                          /\ subtitle.words[j].end = subtitle'.words[k].end ]_vars

\* C34: once a pass has run, the canvas has exactly one 'object:modified'
\* handler, and the fabricObject of every element and every node of the
\* scene has at most one 'selected' handler.
C34_HandlersDoNotAccumulate ==
    pass.started >= 1 =>
        /\ Len(SelectSeq(canvasHandlers, LAMBDA h : h = "object:modified")) = 1
        /\ \A i \in 1..Len(sceneElements) : sceneElements[i].obj.selected <= 1
        /\ \A k \in 1..Len(canvas) : canvas[k].selected <= 1

\* C35: when a pass has been finalized, all loads ended, the nodes of the
\* scene lie bottom to top in paint order: of two elements that have a node,
\* the one earlier in paint order is below the other.
C35_SceneInPaintOrder ==
    (rlog.finalized /\ imageLoads = {}) =>
        LET order == sortElements(sceneElements)
        IN  \A i, j \in 1..Len(order) :
               i < j =>
                  \A a, b \in 1..Len(canvas) :
                     (canvas[a].name = order[i].id /\ canvas[b].name = order[j].id) => a < b

\* C36: the scene left by a pass or by the callback of a load has at most
\* one node for an element id, and every node is the node of an element of
\* the element list.
C36_OneNodePerLiveElement ==
    [][ ((rlog'.op = "refresh" /\ rlog'.ran) \/ rlog'.op = "loadComplete") =>
            /\ \A a, b \in 1..Len(canvas') : canvas'[a].name = canvas'[b].name => a = b
            /\ \A a \in 1..Len(canvas') :
                  \E i \in 1..Len(sceneElements') : sceneElements'[i].id = canvas'[a].name ]_vars

\* C37: when a pass has been finalized, the fabricObject of every element
\* is absent or is a node of the scene.
C37_FabricObjectInScene ==
    rlog.finalized =>
        \A i \in 1..Len(sceneElements) :
            \/ sceneElements[i].obj = NoObj
            \/ \E k \in 1..Len(canvas) : canvas[k] = sceneElements[i].obj

\* C38: the element a fallback insert of a gallery image or video adds
\* overlaps no element that was on its row and ends at or before maxTime.
C38_GapInsertOverlapsNothing ==
    [][ GalleryFallbackDrop =>
            LET n == Len(editorElements)
                new == editorElements'[n + 1]
            IN  /\ new.end <= maxTime
                /\ \A i \in 1..n :
                      editorElements'[i].row = new.row =>
                          (editorElements'[i].end <= new.start \/ new.end <= editorElements'[i].start) ]_vars

\* the call that moves the preview of a mode, for the call that finishes it
PreviewCallOf(finish) ==
    IF finish = "finishGhostDrag" THEN "updateGhostElementWithPush"
    ELSE IF finish = "finishAnimationGhostDrag" THEN "updateAnimationGhostElementWithPush"
    ELSE IF finish = "finishMultiGhostDrag" THEN "updateMultiGhostElements"
    ELSE IF finish = "finishGalleryGhostDrag" THEN "updateGalleryGhost"
    ELSE "none"

\* C39: when a single move, a multi move or a gallery insert is dropped
\* right after a hover, at the pointer x of that hover, the position the
\* drop passes to the finish operation of its mode is the position that
\* hover passed to the preview update of the same mode.
C39_CommitAtPreviewedPosition ==
    [][ (last'.op = "drop" /\ last.op = "hover"
           /\ dnd.kind \in {"timeline-item", "gallery-image", "gallery-video"}) =>
            \A c \in 1..Len(last'.calls), u \in 1..Len(last.calls) :
                last.calls[u].name = PreviewCallOf(last'.calls[c].name) =>
                    last'.calls[c].pos = last.calls[u].pos ]_vars

\* a single move dropped at a previewed position inside the timeline, away
\* from where the pointer is
C39_Witness ==
    /\ last.op = "drop" /\ last.kind = "timeline-item" /\ last.ghost = "singleMove"
    /\ Called("finishGhostDrag")
    /\ CallOf("finishGhostDrag").pos > 0 /\ CallOf("finishGhostDrag").pos < maxTime
    /\ CallOf("finishGhostDrag").pos # pxToTime(mouseXOf(dnd.x))
    /\ dnd.x # dnd.firstX

\* C40: the animation added by the drop of an animation at its ghost has
\* the duration of the ghost, in its duration field and as absoluteEnd minus
\* absoluteStart.
C40_AnimationLastsAsPreviewed ==
    [][ (last'.op = "drop" /\ dnd.kind = "animation-drop" /\ ghostState.isGalleryDragging) =>
            \A i \in 1..Len(last'.calls) :
                last'.calls[i].name = "addAnimation" =>
                    /\ last'.calls[i].dur = ghostState.ghostDuration
                    /\ last'.calls[i].end - last'.calls[i].pos = ghostState.ghostDuration ]_vars

====
